---- MODULE Spec2Model ----
(***************************************************************************)
(* Verification model of the campaign-sync core: the sliding-window        *)
(* RateLimiter, the TokenManager, the ConcurrencyQueue, the retry engine   *)
(* (withRetry) and the ApiClient request pipeline that composes them.      *)
(* Each component is a set of actions over its own variables; every        *)
(* specification below drives one component (or the composed pipeline)     *)
(* from its callers' side and leaves the other components untouched.       *)
(***************************************************************************)
EXTENDS Integers, Sequences, FiniteSets, TLC

(* ------------------------------ bounds --------------------------------- *)
NCallers == 3        \* concurrent callers of RateLimiter.execute
MaxPriority == 1     \* priorities are drawn from 0..MaxPriority
MaxTime == 3         \* the model clock stops advancing here (ms ticks)
MaxCapacity == 1     \* config.maxRequests is drawn from 1..MaxCapacity
NLiveCallers == 2    \* execute() calls followed in the liveness runs

NTasks == 3          \* tasks submitted to the ConcurrencyQueue
MaxConcurrent == 2   \* maxConcurrent is drawn from 1..MaxConcurrent
MaxTaskPriority == 2 \* task priorities are drawn from 0..MaxTaskPriority
NLiveTasks == 2      \* add() calls followed in the liveness runs
MaxSyncRetries == 1  \* retries the retry engine makes inside one sync call

MaxAttempts == 3     \* options.maxAttempts is drawn from 1..MaxAttempts

NTokenCallers == 2   \* concurrent callers of getToken / refreshToken
MaxClockSteps == 1   \* idle steps of the clock in the TokenManager runs
MaxAuthFailures == 3 \* requests the authentication endpoint fails in a run

Callers == 1..NCallers
TokenCallers == 1..NTokenCallers
Tasks == 1..NTasks
Priorities == 0..MaxPriority
TaskPriorities == 0..MaxTaskPriority

MaxPages == 3        \* the pages followed of one fetchAllCampaigns()
PerPage == 2         \* the most campaigns a page holds
MaxWindow == 2       \* config.windowMs is MaxWindow - 1 or MaxWindow ticks

VARIABLES
    now,          \* Date.now()
    config,       \* RateLimiter.config: [maxRequests, windowMs]
    requests,     \* RateLimiter.state.requests: admission timestamps
    queue,        \* RateLimiter.state.queue: sorted QueuedRequest records
    processing,   \* RateLimiter.processing
    drain,        \* the processQueue() activations, keyed by the caller whose
                  \* queueRequest() started them: where each is suspended
    rlCall,       \* the execute() calls, numbered in the order of their
                  \* arrival: position, priority, how they were admitted
    maxConcurrent,\* ConcurrencyQueue.maxConcurrent
    taskQueue,    \* ConcurrencyQueue.queue: the backlog of QueueTask records
    active,       \* ConcurrencyQueue.active
    stats,        \* ConcurrencyQueue.stats
    task,         \* the add() calls, numbered in the order of submission:
                  \* position of the task, state of the returned promise,
                  \* and how many tasks had finished when it was submitted
    retry,        \* one withRetry() activation: options, loop position,
                  \* attempt counter, last error, outcome
    token,        \* TokenManager.token
    refreshState, \* TokenManager.refreshState: isRefreshing, promise
    acq,          \* the acquireToken() activations, keyed by the call that
                  \* started them: the withRetry() activation inside each
    tmCall,       \* the getToken() / refreshToken() calls, numbered in the
                  \* order of their arrival
    auth,         \* the authentication endpoint: requests received, tokens
                  \* issued, failures answered
    api,          \* one ApiClient.request() call: position, current attempt,
                  \* the transport calls sent so far and their answers
                  \* (status and retry-after header)
    idleWait,     \* one ConcurrencyQueue.waitForIdle() call: position
    probe,        \* the calls of RateLimiter.getInfo() and waitForReset()
                  \* made from outside: the last RateLimitInfo returned and
                  \* the position of the waitForReset() call
    discarded,    \* the tokens TokenManager.clearToken() threw away while
                  \* it was watched, each with the number of getToken() /
                  \* refreshToken() calls made before
    orch          \* one SyncOrchestrator.executeSync() run: position, the
                  \* per-campaign workers, the results array and the report

rlVars == <<config, requests, queue, processing, drain, rlCall>>

cqVars == <<maxConcurrent, taskQueue, active, stats, task>>

tmVars == <<token, refreshState, acq, tmCall, auth>>

obsVars == <<idleWait, probe, discarded, orch>>

vars == <<now, config, requests, queue, processing, drain, rlCall,
          maxConcurrent, taskQueue, active, stats, task, retry,
          token, refreshState, acq, tmCall, auth, api,
          idleWait, probe, discarded, orch>>

\* An optional value is a sequence of length 0 (undefined) or 1.
None == <<>>
Some(x) == <<x>>

(* --------------------------- RateLimiter ------------------------------- *)

Min(a, b) == IF a < b THEN a ELSE b
Max(a, b) == IF a > b THEN a ELSE b

\* cleanOldRequests: keep the timestamps strictly newer than now - windowMs
cleanOldRequests(reqs, t) ==
    LET cutoff == t - config.windowMs
        Newer(ts) == ts > cutoff
    IN  SelectSeq(reqs, Newer)

\* canMakeRequest letting one request too many through
canMakeRequest_OneTooMany(cleaned) == Len(cleaned) <= config.maxRequests

\* canMakeRequest, on the already cleaned list
canMakeRequest(cleaned) == Len(cleaned) < config.maxRequests

\* getInfo: remaining and resetAt, on the already cleaned list.  The
\* expression requests[0] || Date.now() takes now for an empty list and for
\* a timestamp of 0.
getInfo(cleaned, t) ==
    LET oldestRequest == IF cleaned = <<>> \/ Head(cleaned) = 0
                         THEN t ELSE Head(cleaned)
    IN  [remaining |-> Max(0, config.maxRequests - Len(cleaned)),
         resetAt   |-> oldestRequest + config.windowMs,
         total     |-> config.maxRequests]

\* queueCompare with the priority test the wrong way round
queueCompare_LowFirst(a, b) ==
    IF a.priority # b.priority THEN a.priority - b.priority
    ELSE a.timestamp - b.timestamp

\* The comparator of queueRequest's sort: negative when a goes before b.
queueCompare(a, b) ==
    IF a.priority # b.priority THEN b.priority - a.priority
    ELSE a.timestamp - b.timestamp

\* Array.prototype.sort is stable: an element is inserted behind every
\* element that does not compare greater than it.
RECURSIVE InsertRequest(_, _)
InsertRequest(s, e) ==
    IF s = <<>> THEN <<e>>
    ELSE IF queueCompare(Head(s), e) <= 0
         THEN <<Head(s)>> \o InsertRequest(Tail(s), e)
         ELSE <<e>> \o s

\* queueRequest's sort: by priority (higher first), then timestamp
RECURSIVE sortQueueRequests(_)
sortQueueRequests(q) ==
    IF q = <<>> THEN <<>>
    ELSE InsertRequest(sortQueueRequests(SubSeq(q, 1, Len(q) - 1)), q[Len(q)])

NoDrain == [pc |-> "off", wake |-> 0, cur |-> 0]

QueueIds(q) == {q[i].id : i \in 1..Len(q)}
InQueue(c) == c \in QueueIds(queue)

\* processQueue leaving its loop although requests are queued
LoopTop_LeavesQueue(d, reqs, q, calls) ==
    [requests |-> reqs, queue |-> q, processing |-> FALSE,
     drain |-> NoDrain, calls |-> calls, exited |-> TRUE]

\* One pass of processQueue's while loop from its top, run until the
\* activation suspends or returns.  d is the activation, reqs and q the
\* limiter state it starts from; the result is the state it leaves.
LoopTop(d, reqs, q, calls) ==
    IF Len(q) = 0
    THEN \* loop exit: processing = false
         [requests |-> reqs, queue |-> q, processing |-> FALSE,
          drain |-> NoDrain, calls |-> calls, exited |-> TRUE]
    ELSE LET cleaned == cleanOldRequests(reqs, now) IN
         IF canMakeRequest(cleaned)
         THEN \* shift, recordRequest, request.execute(), await
              [requests |-> Append(cleaned, now), queue |-> Tail(q),
               processing |-> TRUE,
               drain |-> [pc |-> "await", wake |-> 0, cur |-> Head(q).id],
               calls |-> [calls EXCEPT ![Head(q).id].pc = "running",
                                       ![Head(q).id].via = "drain"],
               exited |-> FALSE]
         ELSE \* await waitForReset(): sleep until resetAt
              LET info == getInfo(cleaned, now)
                  waitTime == Max(0, info.resetAt - now)
              IN  [requests |-> cleaned, queue |-> q, processing |-> TRUE,
                   drain |-> [pc |-> "sleep", wake |-> now + waitTime,
                              cur |-> 0],
                   calls |-> calls, exited |-> FALSE]

\* AfterWait without recordRequest(): the request runs on no timestamp
AfterWait_NoTimestamp(d, reqs, q, calls) ==
    IF Len(q) = 0
    THEN [requests |-> reqs, queue |-> q, processing |-> FALSE,
          drain |-> NoDrain, calls |-> calls, exited |-> TRUE]
    ELSE [requests |-> reqs, queue |-> Tail(q),
          processing |-> TRUE,
          drain |-> [pc |-> "await", wake |-> 0, cur |-> Head(q).id],
          calls |-> [calls EXCEPT ![Head(q).id].pc = "running",
                                  ![Head(q).id].via = "drain"],
          exited |-> FALSE]

\* processQueue after waitForReset() returned: shift and admit, unchecked
AfterWait(d, reqs, q, calls) ==
    IF Len(q) = 0
    THEN \* shift() gave undefined: break, processing = false
         [requests |-> reqs, queue |-> q, processing |-> FALSE,
          drain |-> NoDrain, calls |-> calls, exited |-> TRUE]
    ELSE [requests |-> Append(reqs, now), queue |-> Tail(q),
          processing |-> TRUE,
          drain |-> [pc |-> "await", wake |-> 0, cur |-> Head(q).id],
          calls |-> [calls EXCEPT ![Head(q).id].pc = "running",
                                  ![Head(q).id].via = "drain"],
          exited |-> FALSE]

Arrived == {c \in Callers : rlCall[c].pc # "idle"}

\* execute(fn, priority); the calls are numbered as they arrive
RL_Execute(c, p) ==
    /\ rlCall[c].pc = "idle"
    /\ c = Cardinality(Arrived) + 1
    /\ LET cleaned == cleanOldRequests(requests, now)
       IN  IF canMakeRequest(cleaned)
           THEN \* recordRequest(); return fn()
                /\ requests' = Append(cleaned, now)
                /\ rlCall' = [rlCall EXCEPT ![c] =
                       [pc |-> "running", priority |-> p, via |-> "direct"]]
                /\ UNCHANGED <<queue, processing, drain>>
           ELSE \* queueRequest(fn, priority)
                LET request == [id |-> c, priority |-> p, timestamp |-> now]
                    q1 == sortQueueRequests(Append(queue, request))
                    calls1 == [rlCall EXCEPT ![c] =
                       [pc |-> "queued", priority |-> p, via |-> "none"]]
                IN  IF ~processing
                    THEN \* processQueue() starts and runs to its first await
                         LET r == LoopTop(c, cleaned, q1, calls1) IN
                         /\ requests' = r.requests
                         /\ queue' = r.queue
                         /\ processing' = r.processing
                         /\ drain' = [drain EXCEPT ![c] = r.drain]
                         /\ rlCall' = r.calls
                    ELSE /\ requests' = cleaned
                         /\ queue' = q1
                         /\ rlCall' = calls1
                         /\ UNCHANGED <<processing, drain>>
    /\ UNCHANGED <<now, config>>

\* The timer of waitForReset() fires and processQueue resumes behind it.
RL_DrainWake(d) ==
    /\ drain[d].pc = "sleep"
    /\ now >= drain[d].wake
    /\ LET r == AfterWait(d, requests, queue, rlCall) IN
       /\ requests' = r.requests
       /\ queue' = r.queue
       /\ processing' = r.processing
       /\ drain' = [drain EXCEPT ![d] = r.drain]
       /\ rlCall' = r.calls
    /\ UNCHANGED <<now, config>>

DrainOf(c) == {d \in Callers : drain[d].pc = "await" /\ drain[d].cur = c}

\* RL_WorkDone giving the slot back when the work body rejects: the last
\* timestamp is taken off the list
RL_WorkDone_ForgetsOnFailure(c, ok) ==
    /\ rlCall[c].pc = "running"
    /\ LET calls1 == [rlCall EXCEPT ![c].pc =
                         IF ok THEN "resolved" ELSE "rejected"]
           reqs1 == IF ok \/ requests = <<>> THEN requests
                    ELSE SubSeq(requests, 1, Len(requests) - 1)
       IN  IF rlCall[c].via = "direct"
           THEN /\ rlCall' = calls1
                /\ requests' = reqs1
                /\ UNCHANGED <<queue, processing, drain>>
           ELSE LET d == CHOOSE x \in DrainOf(c) : TRUE
                    r == LoopTop(d, reqs1, queue, calls1)
                IN  /\ requests' = r.requests
                    /\ queue' = r.queue
                    /\ processing' = r.processing
                    /\ drain' = [drain EXCEPT ![d] = r.drain]
                    /\ rlCall' = r.calls
    /\ UNCHANGED <<now, config>>

\* The work body fn() of an admitted call settles (ok: resolves, else
\* rejects).  For a call admitted by processQueue the activation awaiting
\* it settles the caller's promise and goes round its loop.
RL_WorkDone(c, ok) ==
    /\ rlCall[c].pc = "running"
    /\ LET calls1 == [rlCall EXCEPT ![c].pc =
                         IF ok THEN "resolved" ELSE "rejected"]
       IN  IF rlCall[c].via = "direct"
           THEN /\ rlCall' = calls1
                /\ UNCHANGED <<requests, queue, processing, drain>>
           ELSE LET d == CHOOSE x \in DrainOf(c) : TRUE
                    r == LoopTop(d, requests, queue, calls1)
                IN  /\ requests' = r.requests
                    /\ queue' = r.queue
                    /\ processing' = r.processing
                    /\ drain' = [drain EXCEPT ![d] = r.drain]
                    /\ rlCall' = r.calls
    /\ UNCHANGED <<now, config>>

\* clear()
RL_Clear ==
    /\ requests' = <<>>
    /\ queue' = <<>>
    /\ processing' = FALSE
    /\ UNCHANGED <<now, config, drain, rlCall>>

\* getInfo() is called from outside: it prunes the list and returns the
\* RateLimitInfo
RL_GetInfo ==
    /\ LET cleaned == cleanOldRequests(requests, now) IN
       /\ requests' = cleaned
       /\ probe' = [probe EXCEPT !.info = Some(getInfo(cleaned, now))]
    /\ UNCHANGED <<now, config, queue, processing, drain, rlCall>>

\* waitForReset() is called from outside: it returns at once when
\* getInfo() reports capacity, otherwise it sleeps until resetAt
RL_WaitForReset ==
    /\ probe.pc # "sleep"
    /\ LET cleaned == cleanOldRequests(requests, now)
           info == getInfo(cleaned, now)
           waitTime == Max(0, info.resetAt - now)
       IN  /\ requests' = cleaned
           /\ probe' = IF info.remaining > 0 \/ waitTime = 0
                       THEN [probe EXCEPT !.pc = "returned", !.wake = 0]
                       ELSE [probe EXCEPT !.pc = "sleep",
                                          !.wake = now + waitTime]
    /\ UNCHANGED <<now, config, queue, processing, drain, rlCall>>

\* The timer of that waitForReset() call fires and the call returns
RL_WaitReturn ==
    /\ probe.pc = "sleep"
    /\ now >= probe.wake
    /\ probe' = [probe EXCEPT !.pc = "returned", !.wake = 0]
    /\ UNCHANGED <<now, rlVars>>

\* A timer that is due fires before the clock moves on.
TimerDue ==
    \/ \E d \in Callers : drain[d].pc = "sleep" /\ drain[d].wake <= now
    \/ probe.pc = "sleep" /\ probe.wake <= now

RL_Tick ==
    /\ now < MaxTime
    /\ ~TimerDue
    /\ now' = now + 1
    /\ UNCHANGED rlVars

\* The limiter configurations checked: new RateLimiter(config)
Configs == [maxRequests : 1..MaxCapacity,
            windowMs : {MaxWindow - 1, MaxWindow}]

RLIdle ==
    /\ requests = <<>>
    /\ queue = <<>>
    /\ processing = FALSE
    /\ drain = [c \in Callers |-> NoDrain]
    /\ rlCall = [c \in Callers |->
           [pc |-> "idle", priority |-> 0, via |-> "none"]]

(* -------------------------- ConcurrencyQueue --------------------------- *)

\* taskCompare with the operands the wrong way round: lower first
taskCompare_LowFirst(a, b) == a.priority - b.priority

\* sortQueue's comparator: by priority only, higher first
taskCompare(a, b) == b.priority - a.priority

RECURSIVE InsertTask(_, _)
InsertTask(s, e) ==
    IF s = <<>> THEN <<e>>
    ELSE IF taskCompare(Head(s), e) <= 0
         THEN <<Head(s)>> \o InsertTask(Tail(s), e)
         ELSE <<e>> \o s

\* sortQueue: Array.prototype.sort (stable) with taskCompare
RECURSIVE sortQueue(_)
sortQueue(q) ==
    IF q = <<>> THEN <<>>
    ELSE InsertTask(sortQueue(SubSeq(q, 1, Len(q) - 1)), q[Len(q)])

\* processNext with a guard that lets one task too many start
RECURSIVE processNext_OneTooMany(_, _, _, _)
processNext_OneTooMany(q, act, st, tk) ==
    IF act > maxConcurrent \/ Len(q) = 0
    THEN [queue |-> q, active |-> act, stats |-> st, task |-> tk]
    ELSE processNext_OneTooMany(Tail(q), act + 1,
             [st EXCEPT !.active = act + 1, !.pending = Len(q) - 1],
             [tk EXCEPT ![Head(q).id].pc = "running"])

\* processNext: start backlog tasks while a slot is free; task.execute()
\* runs the task body up to its first await, then processNext recurses.
RECURSIVE processNext(_, _, _, _)
processNext(q, act, st, tk) ==
    IF act >= maxConcurrent \/ Len(q) = 0
    THEN [queue |-> q, active |-> act, stats |-> st, task |-> tk]
    ELSE processNext(Tail(q), act + 1,
             [st EXCEPT !.active = act + 1, !.pending = Len(q) - 1],
             [tk EXCEPT ![Head(q).id].pc = "running"])

Submitted == {t \in Tasks : task[t].pc # "new"}

\* add(task, priority); the tasks are numbered as they are submitted
CQ_Add(t, p) ==
    /\ task[t].pc = "new"
    /\ t = Cardinality(Submitted) + 1
    /\ LET q1 == sortQueue(Append(taskQueue, [id |-> t, priority |-> p]))
           st1 == [stats EXCEPT !.pending = Len(q1)]
           tk1 == [task EXCEPT ![t] = [pc |-> "pending", priority |-> p,
                                       promise |-> "pending",
                                       epoch |-> stats.completed + stats.failed]]
           r == processNext(q1, active, st1, tk1)
       IN  /\ taskQueue' = r.queue
           /\ active' = r.active
           /\ stats' = r.stats
           /\ task' = r.task
    /\ UNCHANGED maxConcurrent

\* CountOutcome counting a failure as a completion
CountOutcome_AlwaysCompleted(st, ok) == [st EXCEPT !.completed = @ + 1]

\* The wrapped execute counts the outcome: stats.completed++ in the try
\* block, stats.failed++ in the catch block
CountOutcome(st, ok) ==
    IF ok THEN [st EXCEPT !.completed = @ + 1]
    ELSE [st EXCEPT !.failed = @ + 1]

\* CQ_TaskDone with a finally block that frees the slot and stops there
CQ_TaskDone_LeavesBacklog(t, ok) ==
    /\ task[t].pc = "running"
    /\ stats' = [CountOutcome(stats, ok) EXCEPT !.active = active - 1]
    /\ task' = [task EXCEPT ![t].pc = IF ok THEN "completed" ELSE "failed",
                            ![t].promise =
                                IF ok THEN "resolved" ELSE "rejected"]
    /\ active' = active - 1
    /\ UNCHANGED <<maxConcurrent, taskQueue>>

\* The body of a started task settles: the wrapped execute counts it,
\* settles the promise add() returned, and its finally block frees the
\* slot and calls processNext().
CQ_TaskDone(t, ok) ==
    /\ task[t].pc = "running"
    /\ LET st1 == CountOutcome(stats, ok)
           tk1 == [task EXCEPT ![t].pc = IF ok THEN "completed" ELSE "failed",
                               ![t].promise =
                                   IF ok THEN "resolved" ELSE "rejected"]
           act1 == active - 1
           r == processNext(taskQueue, act1, [st1 EXCEPT !.active = act1], tk1)
       IN  /\ taskQueue' = r.queue
           /\ active' = r.active
           /\ stats' = r.stats
           /\ task' = r.task
    /\ UNCHANGED maxConcurrent

\* clear() leaving stats.pending as it was
CQ_Clear_KeepsPending ==
    /\ taskQueue' = <<>>
    /\ UNCHANGED <<maxConcurrent, active, task, stats>>

\* clear()
CQ_Clear ==
    /\ taskQueue' = <<>>
    /\ stats' = [stats EXCEPT !.pending = 0]
    /\ UNCHANGED <<maxConcurrent, active, task>>

\* isIdle looking at the backlog only
isIdle_IgnoresActive(act, q) == Len(q) = 0

\* isIdle: no task running and none in the backlog
isIdle(act, q) == act = 0 /\ Len(q) = 0

\* waitForIdle() is called: it returns at once when the queue is idle,
\* otherwise it sets its 100 ms timer
CQ_WaitForIdle ==
    /\ idleWait.pc = "idle"
    /\ idleWait' = IF isIdle(active, taskQueue)
                   THEN [pc |-> "returned", slept |-> FALSE]
                   ELSE [pc |-> "sleeping", slept |-> TRUE]

\* The timer of waitForIdle() fires: the loop tests isIdle() again and
\* returns or sets the timer again
CQ_WaitPoll ==
    /\ idleWait.pc = "sleeping"
    /\ idleWait' = IF isIdle(active, taskQueue)
                   THEN [idleWait EXCEPT !.pc = "returned"]
                   ELSE idleWait

CQIdle ==
    /\ taskQueue = <<>>
    /\ active = 0
    /\ stats = [pending |-> 0, active |-> 0, completed |-> 0, failed |-> 0]
    /\ task = [t \in Tasks |->
           [pc |-> "new", priority |-> 0, promise |-> "none", epoch |-> 0]]

(* ------------------------------ errors --------------------------------- *)

\* new AppError(details, isRetryable)
AppError(name, code, retryAfter, originalError, attempts, isRetryable) ==
    [name |-> name, isApp |-> TRUE, hasCode |-> TRUE, code |-> code,
     retryAfter |-> retryAfter, originalError |-> originalError,
     attempts |-> attempts, isRetryable |-> isRetryable]

AuthError(originalError) ==
    AppError("AuthError", "AUTH_FAILED", None, originalError, None, TRUE)
TokenExpiredError ==
    AppError("TokenExpiredError", "TOKEN_EXPIRED", None, None, None, TRUE)
RateLimitError(retryAfter) ==
    AppError("RateLimitError", "RATE_LIMIT_EXCEEDED", Some(retryAfter),
             None, None, TRUE)
ServiceUnavailableError(retryAfter) ==
    AppError("ServiceUnavailableError", "SERVICE_UNAVAILABLE", retryAfter,
             None, None, TRUE)
TimeoutError == AppError("TimeoutError", "TIMEOUT", None, None, None, TRUE)
NetworkError(originalError) ==
    AppError("NetworkError", "NETWORK_ERROR", None, originalError, None, TRUE)
ApiError == AppError("ApiError", "API_ERROR", None, None, None, FALSE)
\* new ApiError(message, statusCode): the generic error with its status
ApiErrorOf(statusCode) ==
    [f \in DOMAIN ApiError \cup {"statusCode"} |->
        IF f = "statusCode" THEN statusCode ELSE ApiError[f]]
MaxRetriesExceededError(attempts, lastError) ==
    AppError("MaxRetriesExceededError", "MAX_RETRIES_EXCEEDED", None,
             lastError, Some(attempts), FALSE)

\* A plain Error: no code, only a message
PlainError(message) ==
    [name |-> "Error", isApp |-> FALSE, hasCode |-> FALSE, code |-> "",
     retryAfter |-> None, originalError |-> None, attempts |-> None,
     isRetryable |-> FALSE, message |-> message]

\* isRetryableError
isRetryableError(error) ==
    IF error.isApp THEN error.isRetryable
    ELSE error.message \in {"ECONNREFUSED", "ENOTFOUND", "ETIMEDOUT"}

\* getRetryAfter
getRetryAfter(error) == IF error.isApp THEN error.retryAfter ELSE None

(* ---------------------------- retry engine ----------------------------- *)

\* DEFAULT_RETRY_OPTIONS.retryableErrors
DefaultRetryableErrors ==
    <<"SERVICE_UNAVAILABLE", "TIMEOUT", "NETWORK_ERROR",
      "RATE_LIMIT_EXCEEDED", "TOKEN_EXPIRED">>

Range(s) == {s[i] : i \in 1..Len(s)}

RECURSIVE Pow2(_)
Pow2(n) == IF n = 0 THEN 1 ELSE 2 * Pow2(n - 1)

\* calculateDelay without the cap at maxDelay
calculateDelay_NoCap(attempt, baseDelay, jitterAmount, maxDelay) ==
    Max(0, baseDelay * Pow2(attempt) + jitterAmount)

\* calculateDelay; jitterAmount is Math.random() * jitter * 2 - jitter,
\* sampled at whole milliseconds, where Math.round changes nothing
calculateDelay(attempt, baseDelay, jitterAmount, maxDelay) ==
    LET exponentialDelay == baseDelay * Pow2(attempt)
        cappedDelay == Min(exponentialDelay, maxDelay)
    IN  Max(0, cappedDelay + jitterAmount)

\* shouldRetry
shouldRetry(error, attempt, maxAttempts, retryableErrors) ==
    IF attempt >= maxAttempts THEN FALSE
    ELSE IF ~isRetryableError(error) THEN FALSE
    ELSE IF error.hasCode /\ Len(retryableErrors) > 0
         THEN error.code \in Range(retryableErrors)
         ELSE TRUE

\* getRetryDelay: the three exponential-backoff branches are the same call
getRetryDelay(error, attempt, options, jitterAmount) ==
    LET retryAfter == getRetryAfter(error) IN
    IF retryAfter # None
    THEN retryAfter[1] * 1000 + jitterAmount
    ELSE calculateDelay(attempt, options.baseDelay, jitterAmount,
                        options.maxDelay)

\* The samples of Math.random() * jitter * 2 - jitter: the two ends
JitterAmounts(options) == {0 - options.jitter, options.jitter}

IdleRetry ==
    [pc |-> "idle", options |-> None, attempt |-> 0, calls |-> 0,
     lastError |-> None, result |-> None, thrown |-> None,
     delay |-> 0, wake |-> 0]

\* The while loop of withRetry from its test: call fn() once more, or
\* leave the loop and throw MaxRetriesExceededError
RetryLoop(r) ==
    IF r.attempt < r.options[1].maxAttempts
    THEN [r EXCEPT !.pc = "calling", !.calls = @ + 1,
                   !.delay = 0, !.wake = 0]
    ELSE [r EXCEPT !.pc = "thrown", !.delay = 0, !.wake = 0,
                   !.thrown = Some(MaxRetriesExceededError(
                                  r.options[1].maxAttempts, r.lastError))]

\* withRetry(fn, options) up to its first await
RetryStart(options) == RetryLoop([IdleRetry EXCEPT !.options = Some(options)])

\* RetryReturn calling fn() again instead of returning
RetryReturn_CallsAgain(r, value) ==
    [r EXCEPT !.pc = "calling", !.calls = @ + 1]

\* fn() resolved: return result
RetryReturn(r, value) == [r EXCEPT !.pc = "returned", !.result = Some(value)]

\* fn() rejected: the catch block, up to the throw or the await sleep(delay)
RetryCatch(r, error, jitterAmount, t) ==
    LET attempt == r.attempt + 1
        opts == r.options[1]
        r1 == [r EXCEPT !.lastError = Some(error), !.attempt = attempt]
    IN  IF ~shouldRetry(error, attempt, opts.maxAttempts, opts.retryableErrors)
        THEN [r1 EXCEPT !.pc = "thrown", !.thrown = Some(error)]
        ELSE LET delay == getRetryDelay(error, attempt - 1, opts, jitterAmount)
             IN  [r1 EXCEPT !.pc = "sleeping", !.delay = delay,
                            !.wake = t + Max(0, delay)]

\* The option sets withRetry is checked with
RetryOptionSets ==
    [maxAttempts : 1..MaxAttempts, baseDelay : {100, 1000}, jitter : {0, 250},
     maxDelay : {1500, 16000}, retryableErrors : {<<>>, DefaultRetryableErrors}]

\* The errors the operation under retry fails with
OperationErrors ==
    {TimeoutError, TokenExpiredError, RateLimitError(2), RateLimitError(0),
     ServiceUnavailableError(None), ApiError,
     AuthError(None), PlainError("ECONNREFUSED"), PlainError("boom")}

\* withRetry(fn, options) is called
R_WithRetry(options) ==
    /\ retry.pc = "idle"
    /\ retry' = RetryStart(options)
    /\ UNCHANGED now

\* fn() resolves; its value names the invocation that produced it
R_OpResolves ==
    /\ retry.pc = "calling"
    /\ retry' = RetryReturn(retry, retry.calls)
    /\ UNCHANGED now

\* fn() rejects with error
R_OpRejects(error) ==
    /\ retry.pc = "calling"
    /\ \E jitterAmount \in JitterAmounts(retry.options[1]) :
           retry' = RetryCatch(retry, error, jitterAmount, now)
    /\ UNCHANGED now

\* sleep(delay) is over: the clock has reached the timer and the loop goes on
R_SleepOver ==
    /\ retry.pc = "sleeping"
    /\ now' = Max(now, retry.wake)
    /\ retry' = RetryLoop(retry)

(* ---------------------------- TokenManager ----------------------------- *)

TOKEN_REFRESH_BUFFER_SECONDS == 300

\* Math.floor(Date.now() / 1000)
NowSeconds(t) == t \div 1000

\* isTokenExpired
isTokenExpired(t) ==
    IF token = None THEN TRUE
    ELSE NowSeconds(t) >= token[1].issued_at + token[1].expires_in

\* needsRefresh without the refresh buffer
needsRefresh_NoBuffer(t) ==
    IF token = None THEN TRUE
    ELSE LET expiryTime == token[1].issued_at + token[1].expires_in
         IN  NowSeconds(t) >= expiryTime

\* needsRefresh
needsRefresh(t) ==
    IF token = None THEN TRUE
    ELSE LET expiryTime == token[1].issued_at + token[1].expires_in
             refreshTime == expiryTime - TOKEN_REFRESH_BUFFER_SECONDS
         IN  NowSeconds(t) >= refreshTime

\* The options acquireToken passes to withRetry, merged over the defaults
AcquireOptions ==
    [maxAttempts |-> 3, baseDelay |-> 1000, jitter |-> 250,
     maxDelay |-> 5000, retryableErrors |-> <<>>]

\* refreshToken's test, never finding a refresh in flight
RefreshTokenJoins_Never == FALSE

\* refreshToken: if already refreshing, return the existing promise
RefreshTokenJoins ==
    refreshState.isRefreshing /\ refreshState.promise # None

\* getToken: if currently refreshing, wait for that to complete
GetTokenJoins ==
    refreshState.isRefreshing /\ refreshState.promise # None

ArrivedTM == {c \in DOMAIN tmCall : tmCall[c].pc # "idle"}

IdleTmCall ==
    [op |-> "none", pc |-> "idle", on |-> 0, started |-> FALSE,
     result |-> None]

\* acquireToken() up to its first await: withRetry calls
\* authenticateWithApi, which sends the request to the endpoint
AcquireStart(c) ==
    /\ acq' = [acq EXCEPT ![c] = RetryStart(AcquireOptions)]
    /\ auth' = [auth EXCEPT !.requests = @ + 1]

\* c awaits the promise of acquisition a
Await(c, op, a, started) ==
    tmCall' = [tmCall EXCEPT ![c] =
        [op |-> op, pc |-> "awaiting", on |-> a, started |-> started,
         result |-> None]]

\* refreshToken(), called directly or from getToken
RefreshTokenBody(c, op) ==
    IF RefreshTokenJoins
    THEN /\ Await(c, op, refreshState.promise[1], FALSE)
         /\ UNCHANGED <<refreshState, acq, auth>>
    ELSE /\ refreshState' = [isRefreshing |-> TRUE, promise |-> Some(c)]
         /\ AcquireStart(c)
         /\ Await(c, op, c, TRUE)

\* refreshToken() called by c
TM_RefreshToken(c) ==
    /\ tmCall[c].pc = "idle"
    /\ c = Cardinality(ArrivedTM) + 1
    /\ RefreshTokenBody(c, "refreshToken")
    /\ UNCHANGED <<now, token>>

\* getToken() called by c
TM_GetToken(c) ==
    /\ tmCall[c].pc = "idle"
    /\ c = Cardinality(ArrivedTM) + 1
    /\ IF GetTokenJoins
       THEN /\ Await(c, "getToken", refreshState.promise[1], FALSE)
            /\ UNCHANGED <<refreshState, acq, auth>>
       ELSE IF token = None
       THEN \* return this.acquireToken()
            /\ AcquireStart(c)
            /\ Await(c, "getToken", c, FALSE)
            /\ UNCHANGED refreshState
       ELSE IF isTokenExpired(now) \/ needsRefresh(now)
       THEN RefreshTokenBody(c, "getToken")
       ELSE \* return this.token
            /\ tmCall' = [tmCall EXCEPT ![c] =
                   [op |-> "getToken", pc |-> "returned", on |-> 0,
                    started |-> FALSE, result |-> token]]
            /\ UNCHANGED <<refreshState, acq, auth>>
    /\ UNCHANGED <<now, token>>

\* The endpoint answers the request of acquisition a with 200: the token
\* is stamped, withRetry returns it and acquireToken stores it.
TM_AuthOk(a, expiresIn) ==
    /\ acq[a].pc = "calling"
    /\ LET tok == [access_token |-> auth.issued + 1,
                   expires_in |-> expiresIn,
                   issued_at |-> NowSeconds(now)]
       IN  /\ acq' = [acq EXCEPT ![a] = RetryReturn(acq[a], tok)]
           /\ token' = Some(tok)
           /\ auth' = [auth EXCEPT !.issued = @ + 1]
    /\ UNCHANGED <<now, refreshState, tmCall>>

\* The request of acquisition a fails: the endpoint answers non-2xx
\* (rejected), or fetch itself throws.  authenticateWithApi throws an
\* AuthError either way, the second wrapping the fetch error.
TM_AuthFails(a, rejected) ==
    /\ acq[a].pc = "calling"
    /\ auth.failures < MaxAuthFailures
    /\ \E jitterAmount \in JitterAmounts(AcquireOptions) :
         LET error == IF rejected THEN AuthError(None)
                      ELSE AuthError(Some(PlainError("network")))
         IN  acq' = [acq EXCEPT ![a] =
                        RetryCatch(acq[a], error, jitterAmount, now)]
    /\ auth' = [auth EXCEPT !.failures = @ + 1]
    /\ UNCHANGED <<now, token, refreshState, tmCall>>

\* sleep(delay) inside acquisition a is over: withRetry calls
\* authenticateWithApi again, or gives up
TM_AcquireSleepOver(a) ==
    /\ acq[a].pc = "sleeping"
    /\ now >= acq[a].wake
    /\ acq' = [acq EXCEPT ![a] = RetryLoop(acq[a])]
    /\ auth' = [auth EXCEPT !.requests =
                    IF acq'[a].pc = "calling" THEN @ + 1 ELSE @]
    /\ UNCHANGED <<now, token, refreshState, tmCall>>

\* TM_Resume with a finally block that runs only when the refresh succeeded
TM_Resume_KeepsSlotOnFailure(c) ==
    /\ tmCall[c].pc = "awaiting"
    /\ acq[tmCall[c].on].pc \in {"returned", "thrown"}
    /\ LET a == acq[tmCall[c].on] IN
       /\ tmCall' = [tmCall EXCEPT
              ![c].pc = IF a.pc = "returned" THEN "returned" ELSE "thrown",
              ![c].result = IF a.pc = "returned" THEN a.result
                            ELSE Some(AuthError(a.thrown))]
       /\ refreshState' = IF tmCall[c].started /\ a.pc = "returned"
                          THEN [isRefreshing |-> FALSE, promise |-> None]
                          ELSE refreshState
    /\ UNCHANGED <<now, token, acq, auth>>

\* The promise c awaits has settled and c goes on: it returns the token or
\* throws acquireToken's AuthError; the call that started the refresh
\* clears refreshState in its finally block.
TM_Resume(c) ==
    /\ tmCall[c].pc = "awaiting"
    /\ acq[tmCall[c].on].pc \in {"returned", "thrown"}
    /\ LET a == acq[tmCall[c].on] IN
       tmCall' = [tmCall EXCEPT
           ![c].pc = IF a.pc = "returned" THEN "returned" ELSE "thrown",
           ![c].result = IF a.pc = "returned" THEN a.result
                         ELSE Some(AuthError(a.thrown))]
    /\ refreshState' = IF tmCall[c].started
                       THEN [isRefreshing |-> FALSE, promise |-> None]
                       ELSE refreshState
    /\ UNCHANGED <<now, token, acq, auth>>

\* clearToken()
TM_ClearToken ==
    /\ token' = None
    /\ UNCHANGED <<now, refreshState, acq, tmCall, auth>>

\* The clock moves on by step; the timers that came due fire afterwards
TM_Tick(step, horizon) ==
    /\ now + step <= horizon
    /\ now' = now + step
    /\ UNCHANGED tmVars

\* No timer of an acquisition is due: the clock moves on to the earliest
TM_TickToTimer ==
    /\ \E a \in TokenCallers : acq[a].pc = "sleeping"
    /\ \A a \in TokenCallers : acq[a].pc = "sleeping" => acq[a].wake > now
    /\ \E a \in TokenCallers :
          /\ acq[a].pc = "sleeping"
          /\ \A b \in TokenCallers :
                acq[b].pc = "sleeping" => acq[a].wake <= acq[b].wake
          /\ now' = acq[a].wake
    /\ UNCHANGED tmVars

TMIdle ==
    /\ refreshState = [isRefreshing |-> FALSE, promise |-> None]
    /\ acq = [c \in TokenCallers |-> IdleRetry]
    /\ tmCall = [c \in TokenCallers |-> IdleTmCall]

(* ------------------------------ ApiClient ------------------------------ *)

\* The options request() passes to withRetry
RequestOptions ==
    [maxAttempts |-> 5, baseDelay |-> 1000, jitter |-> 250,
     maxDelay |-> 16000, retryableErrors |-> <<>>]

\* ApiClient.getRetryAfter: the retry-after header is absent (None) or a
\* number of seconds in decimal digits, which parseInt reads back
ClientGetRetryAfter(header) == IF header = None THEN 60 ELSE header[1]

\* handleResponse taking every other error status for a 503
handleResponse_OtherAs503(status, header) ==
    IF status >= 200 /\ status <= 299
    THEN [ok |-> TRUE, error |-> None]
    ELSE IF status = 401
    THEN [ok |-> FALSE, error |-> Some(TokenExpiredError)]
    ELSE IF status = 429
    THEN [ok |-> FALSE,
          error |-> Some(RateLimitError(ClientGetRetryAfter(header)))]
    ELSE [ok |-> FALSE,
          error |-> Some(ServiceUnavailableError(
                             Some(ClientGetRetryAfter(header))))]

\* handleResponse for a response whose body parses: the value returned,
\* or the error thrown
handleResponse(status, header) ==
    IF status >= 200 /\ status <= 299
    THEN [ok |-> TRUE, error |-> None]
    ELSE IF status = 401
    THEN [ok |-> FALSE, error |-> Some(TokenExpiredError)]
    ELSE IF status = 429
    THEN [ok |-> FALSE,
          error |-> Some(RateLimitError(ClientGetRetryAfter(header)))]
    ELSE IF status = 503
    THEN [ok |-> FALSE,
          error |-> Some(ServiceUnavailableError(
                             Some(ClientGetRetryAfter(header))))]
    ELSE [ok |-> FALSE, error |-> Some(ApiErrorOf(status))]

\* The catch block of executeRequest.  The messages of the AppErrors that
\* reach it contain none of the words it looks for; a plain Error is
\* known by its message.
transformError(error) ==
    IF ~error.isApp /\ error.message = "timeout" THEN TimeoutError
    ELSE IF ~error.isApp /\ error.message \in {"fetch failed", "network"}
    THEN NetworkError(Some(error))
    ELSE error

IdleApi == [pc |-> "idle", attempt |-> 0, sent |-> <<>>]

\* fetchFn(url, init) is called with the token in the Authorization header
Fetch(k, tok) ==
    [api EXCEPT !.pc = "fetching", !.attempt = k,
                !.sent = Append(@, [token |-> tok.access_token,
                                    authRequests |-> auth.requests,
                                    status |-> 0, header |-> None])]

\* executeRequest up to its next await: getToken(), and the transport
\* call at once when getToken returned the stored token
ExecuteRequest(k) ==
    /\ TM_GetToken(k)
    /\ api' = IF tmCall'[k].pc = "returned"
              THEN Fetch(k, tmCall'[k].result[1])
              ELSE [api EXCEPT !.pc = "token", !.attempt = k]

\* AttemptStart calling executeRequest without going through the limiter
AttemptStart_SkipsLimiter(k) ==
    /\ ExecuteRequest(k)
    /\ UNCHANGED rlVars

\* Attempt k of request(): rateLimiter.execute(() => executeRequest()),
\* which runs executeRequest at once or leaves it in the limiter's queue
AttemptStart(k) ==
    /\ RL_Execute(k, 0)
    /\ IF rlCall'[k].pc = "running"
       THEN ExecuteRequest(k)
       ELSE /\ api' = [api EXCEPT !.pc = "limiter", !.attempt = k]
            /\ UNCHANGED <<token, refreshState, acq, tmCall, auth>>

\* executeRequest of attempt k settles: the limiter passes the outcome on
\* and withRetry returns it, throws it, or sleeps before the next attempt.
\* a is the request with the answer recorded.
Settle(k, ok, value, error, a) ==
    /\ RL_WorkDone(k, ok)
    /\ IF ok
       THEN /\ retry' = RetryReturn(retry, value)
            /\ api' = [a EXCEPT !.pc = "returned"]
       ELSE \E jitterAmount \in JitterAmounts(retry.options[1]) :
            /\ retry' = RetryCatch(retry, error, jitterAmount, now)
            /\ api' = [a EXCEPT !.pc = IF retry'.pc = "sleeping"
                                       THEN "backoff" ELSE "thrown"]

\* request() is called: withRetry starts the first attempt
API_Request ==
    /\ api.pc = "idle"
    /\ retry' = RetryStart(RequestOptions)
    /\ AttemptStart(1)

\* The limiter's processQueue admits the queued attempt behind its timer
API_DrainWake(d) ==
    /\ api.pc = "limiter"
    /\ RL_DrainWake(d)
    /\ IF rlCall'[api.attempt].pc = "running"
       THEN ExecuteRequest(api.attempt)
       ELSE UNCHANGED <<token, refreshState, acq, tmCall, auth, api>>
    /\ UNCHANGED retry

\* The promise getToken() returned settles: executeRequest sends the
\* transport call, or rethrows acquireToken's error
API_TokenReady ==
    /\ api.pc = "token"
    /\ TM_Resume(api.attempt)
    /\ IF tmCall'[api.attempt].pc = "returned"
       THEN /\ api' = Fetch(api.attempt, tmCall'[api.attempt].result[1])
            /\ UNCHANGED <<rlVars, retry>>
       ELSE Settle(api.attempt, FALSE, 0,
                   transformError(tmCall'[api.attempt].result[1]), api)

\* The server answers the transport call with status and retry-after header
API_Respond(status, header) ==
    /\ api.pc = "fetching"
    /\ LET r == handleResponse(status, header)
           a == [api EXCEPT !.sent[Len(api.sent)].status = status,
                            !.sent[Len(api.sent)].header = header]
       IN  Settle(api.attempt, r.ok, status,
                  IF r.ok THEN ApiError ELSE transformError(r.error[1]), a)
    /\ UNCHANGED <<token, refreshState, acq, tmCall, auth>>

\* The transport call throws, or the timeout set beside it fires first
API_TransportFails(message) ==
    /\ api.pc = "fetching"
    /\ Settle(api.attempt, FALSE, 0, transformError(PlainError(message)),
              [api EXCEPT !.sent[Len(api.sent)].status = -1])
    /\ UNCHANGED <<token, refreshState, acq, tmCall, auth>>

\* sleep(delay) of request()'s withRetry is over: the next attempt.  The
\* calls of the limiter and of the token manager are numbered up to
\* NCallers and NTokenCallers, which caps the attempts followed.
API_SleepOver ==
    /\ api.pc = "backoff"
    /\ now >= retry.wake
    /\ api.attempt < NCallers /\ api.attempt < NTokenCallers
    /\ retry' = RetryLoop(retry)
    /\ IF retry'.pc = "calling"
       THEN AttemptStart(api.attempt + 1)
       ELSE /\ api' = [api EXCEPT !.pc = "thrown"]
            /\ UNCHANGED <<rlVars, token, refreshState, acq, tmCall, auth>>

\* The timers that are set: withRetry's sleep, waitForReset, acquireToken's
PendingWakes ==
    {retry.wake : x \in {y \in {1} : retry.pc = "sleeping"}}
    \cup {drain[d].wake : d \in {e \in Callers : drain[e].pc = "sleep"}}
    \cup {acq[a].wake : a \in {b \in TokenCallers : acq[b].pc = "sleeping"}}

\* No timer is due: the clock moves on to the earliest timer set
API_Tick ==
    /\ PendingWakes # {}
    /\ \A w \in PendingWakes : w > now
    /\ \E w \in PendingWakes :
          /\ \A v \in PendingWakes : w <= v
          /\ now' = w
    /\ UNCHANGED <<rlVars, tmVars, retry, api>>

(* ------------------- CampaignWorker and SyncOrchestrator --------------- *)

\* The syncCampaign() call for one campaign: not started; waiting for
\* syncCampaignFn ("sync") or saveCampaignFn ("save"); done.  retried counts
\* the retries withRetry made inside syncCampaignFn, failed tells that
\* one of the two calls rejected.
\* saves counts the saveCampaignFn calls made for the campaign, answer is
\* what the sync request came back with and error the text of the error in
\* the SyncResult.
IdleWorker ==
    [pc |-> "new", retried |-> 0, failed |-> FALSE, saves |-> 0,
     answer |-> None, error |-> None]

\* syncCampaign without its catch block: the rejection escapes
syncCampaign_NoCatch(campaignId, ok) ==
    IF ok
    THEN [threw |-> FALSE,
          result |-> Some([campaignId |-> campaignId, success |-> TRUE,
                           retries |-> 0])]
    ELSE [threw |-> TRUE, result |-> None]

\* syncCampaign once both calls resolved (ok) or one of them rejected:
\* the SyncResult returned; retries is the local it initialises to 0
syncCampaign(campaignId, ok) ==
    [threw |-> FALSE,
     result |-> Some([campaignId |-> campaignId, success |-> ok,
                      retries |-> 0])]

\* A task the queue started runs its body up to worker.syncCampaign()'s
\* first await: syncCampaignFn(campaign.id) is called
StartWorkers(w, tk) ==
    [t \in Tasks |-> IF tk[t].pc = "running" /\ w[t].pc = "new"
                     THEN [w[t] EXCEPT !.pc = "sync"] ELSE w[t]]

\* queue.add(task) with the default priority, as a function of the
\* queue's state c
AddOne(c, t) ==
    LET q1 == sortQueue(Append(c.queue, [id |-> t, priority |-> 0]))
        st1 == [c.stats EXCEPT !.pending = Len(q1)]
        tk1 == [c.task EXCEPT ![t] =
                   [pc |-> "pending", priority |-> 0, promise |-> "pending",
                    epoch |-> c.stats.completed + c.stats.failed]]
    IN  processNext(q1, c.active, st1, tk1)

\* campaigns.map(campaign => this.queue.add(...)) for campaigns k..n
RECURSIVE AddAll(_, _, _)
AddAll(c, k, n) == IF k > n THEN c ELSE AddAll(AddOne(c, k), k + 1, n)

RECURSIVE SumRetries(_)
SumRetries(results) ==
    IF results = <<>> THEN 0
    ELSE Head(results).retries + SumRetries(Tail(results))

\* generateReport
generateReport(totalCampaigns, results) ==
    LET Succeeded(r) == r.success
        Failed(r) == ~r.success
        failed == SelectSeq(results, Failed)
    IN  [totalCampaigns |-> totalCampaigns,
         successCount |-> Len(SelectSeq(results, Succeeded)),
         failureCount |-> Len(failed),
         retryCount |-> SumRetries(results),
         results |-> results,
         failures |-> [i \in 1..Len(failed) |-> failed[i].campaignId]]

\* executeSync() is called: fetchAllCampaignsFn() is awaited
O_ExecuteSync ==
    /\ orch.pc = "idle"
    /\ orch' = [orch EXCEPT !.pc = "fetching"]
    /\ UNCHANGED cqVars

\* fetchAllCampaignsFn() resolves with n campaigns: each is handed to
\* queue.add(), which starts as many as there are slots, and the run
\* awaits Promise.allSettled
O_Fetched(n) ==
    /\ orch.pc = "fetching"
    /\ LET r == AddAll([queue |-> taskQueue, active |-> active,
                        stats |-> stats, task |-> task], 1, n)
       IN  /\ taskQueue' = r.queue
           /\ active' = r.active
           /\ stats' = r.stats
           /\ task' = r.task
    /\ orch' = [orch EXCEPT !.pc = "syncing", !.n = n,
                            !.worker = StartWorkers(orch.worker, task')]
    /\ UNCHANGED maxConcurrent

\* fetchAllCampaignsFn() rejects: executeSync rethrows
O_FetchFails ==
    /\ orch.pc = "fetching"
    /\ orch' = [orch EXCEPT !.pc = "thrown"]
    /\ UNCHANGED cqVars

\* The campaigns of page k of the given size, in the order of response.data
PageData(k, size) == [i \in 1..size |-> [page |-> k, index |-> i]]

\* fetchAllCampaigns' loop body giving up after the page it got
fetchAllStep_StopsAfterPage(f, data, has_more) ==
    [allCampaigns |-> f.allCampaigns \o data, hasMore |-> FALSE,
     currentPage |-> f.currentPage + 1]

\* One pass of fetchAllCampaigns' while loop after the page arrived:
\* allCampaigns.push(...response.data); hasMore = has_more; currentPage++
fetchAllStep(f, data, has_more) ==
    [allCampaigns |-> f.allCampaigns \o data, hasMore |-> has_more,
     currentPage |-> f.currentPage + 1]

\* executeSync() is called with fetchAllCampaignsFn wired to
\* CampaignService.fetchAllCampaigns: page 1 is requested
F_ExecuteSync ==
    /\ orch.pc = "idle"
    /\ orch' = [orch EXCEPT !.pc = "fetching", !.requested = <<1>>]
    /\ UNCHANGED cqVars

\* fetchCampaignsPage resolves with a page of the given size and has_more
\* flag: the loop requests the next page, or fetchAllCampaigns returns and
\* executeSync hands every campaign to queue.add()
F_PageFetched(size, has_more) ==
    /\ orch.pc = "fetching"
    /\ orch.requested # <<>>
    /\ LET k == orch.requested[Len(orch.requested)]
           f == fetchAllStep([allCampaigns |-> orch.allCampaigns,
                              hasMore |-> TRUE, currentPage |-> k],
                             PageData(k, size), has_more)
           o1 == [orch EXCEPT
                    !.pages = Append(@, [size |-> size, has_more |-> has_more]),
                    !.allCampaigns = f.allCampaigns]
       IN  IF f.hasMore
           THEN /\ orch' = [o1 EXCEPT !.requested = Append(@, f.currentPage)]
                /\ UNCHANGED cqVars
           ELSE LET n == Len(f.allCampaigns)
                    r == AddAll([queue |-> taskQueue, active |-> active,
                                 stats |-> stats, task |-> task], 1, n)
                IN  /\ taskQueue' = r.queue
                    /\ active' = r.active
                    /\ stats' = r.stats
                    /\ task' = r.task
                    /\ orch' = [o1 EXCEPT
                           !.pc = "syncing", !.n = n,
                           !.worker = StartWorkers(orch.worker, task')]
                    /\ UNCHANGED maxConcurrent

\* fetchCampaignsPage rejects: fetchAllCampaigns and executeSync rethrow
F_PageFails ==
    /\ orch.pc = "fetching"
    /\ orch.requested # <<>>
    /\ orch' = [orch EXCEPT !.pc = "thrown"]
    /\ UNCHANGED cqVars

\* withRetry, inside syncCampaignFn, retries the request of campaign t
O_SyncRetried(t) ==
    /\ orch.worker[t].pc = "sync"
    /\ orch.worker[t].retried < MaxSyncRetries
    /\ orch' = [orch EXCEPT !.worker[t].retried = @ + 1]
    /\ UNCHANGED cqVars

\* The body of task t is over: syncCampaign returned its SyncResult (or
\* threw); the result is pushed and counted, the queue settles the task
\* and starts the next ones
TaskBodyDone(t, ok, w) ==
    LET out == syncCampaign(t, ok) IN
    /\ CQ_TaskDone(t, ~out.threw)
    /\ orch' = IF out.threw
               THEN [orch EXCEPT !.worker = StartWorkers(w, task')]
               ELSE [orch EXCEPT
                       !.worker = StartWorkers(w, task'),
                       !.results = Append(@, out.result[1]),
                       !.successCount =
                           IF out.result[1].success THEN @ + 1 ELSE @,
                       !.failedCount =
                           IF out.result[1].success THEN @ ELSE @ + 1]

\* syncCampaignFn(campaign.id) settles: saveCampaignFn(campaign) is called,
\* or the catch block builds the failure result
O_SyncDone(t, ok) ==
    /\ orch.worker[t].pc = "sync"
    /\ IF ok
       THEN /\ orch' = [orch EXCEPT !.worker[t].pc = "save",
                                    !.worker[t].saves = @ + 1]
            /\ UNCHANGED cqVars
       ELSE TaskBodyDone(t, FALSE,
                [orch.worker EXCEPT ![t].pc = "done", ![t].failed = TRUE])

\* The text of the error CampaignService.syncCampaign throws when the
\* response carries no message
FailedToSync(campaignId) == <<"Failed to sync campaign", campaignId>>

\* CampaignService.syncCampaign taking every response for a success
ServiceSyncCampaign_IgnoresSuccess(campaignId, answer) ==
    IF answer.rejected
    THEN [threw |-> TRUE, error |-> answer.text]
    ELSE [threw |-> FALSE, error |-> ""]

\* CampaignService.syncCampaign once apiClient.post settled: the error of
\* the request is passed on; a response with success false throws
\* new Error(response.message || `Failed to sync campaign ${campaignId}`)
ServiceSyncCampaign(campaignId, answer) ==
    IF answer.rejected
    THEN [threw |-> TRUE, error |-> answer.text]
    ELSE IF ~answer.success
    THEN [threw |-> TRUE,
          error |-> IF answer.message = None \/ answer.message = Some("")
                    THEN FailedToSync(campaignId) ELSE answer.message[1]]
    ELSE [threw |-> FALSE, error |-> ""]

\* syncCampaignFn(campaign.id), wired to CampaignService.syncCampaign,
\* settles after the request came back with answer: saveCampaignFn is
\* called, or the catch block builds the failure result with the error
O_SyncAnswered(t, answer) ==
    /\ orch.worker[t].pc = "sync"
    /\ LET out == ServiceSyncCampaign(t, answer) IN
       IF ~out.threw
       THEN /\ orch' = [orch EXCEPT !.worker[t].pc = "save",
                                    !.worker[t].answer = Some(answer),
                                    !.worker[t].saves = @ + 1]
            /\ UNCHANGED cqVars
       ELSE TaskBodyDone(t, FALSE,
                [orch.worker EXCEPT ![t].pc = "done", ![t].failed = TRUE,
                                    ![t].answer = Some(answer),
                                    ![t].error = Some(out.error)])

\* saveCampaignFn(campaign) settles
O_SaveDone(t, ok) ==
    /\ orch.worker[t].pc = "save"
    /\ TaskBodyDone(t, ok,
           [orch.worker EXCEPT ![t].pc = "done", ![t].failed = ~ok])

\* Promise.allSettled(promises) resolves: generateReport
O_Report ==
    /\ orch.pc = "syncing"
    /\ \A t \in 1..orch.n : task[t].promise \in {"resolved", "rejected"}
    /\ orch' = [orch EXCEPT !.pc = "reported",
                            !.report = Some(generateReport(orch.n, orch.results))]
    /\ UNCHANGED cqVars

(* ------------------------- calls not yet made -------------------------- *)

\* waitForIdle() has not been called
IdleWaiter == [pc |-> "idle", slept |-> FALSE]

\* Neither getInfo() nor waitForReset() has been called from outside
IdleProbe == [info |-> None, pc |-> "idle", wake |-> 0]

\* executeSync() has not been called
IdleOrch ==
    [pc |-> "idle", n |-> 0, worker |-> [t \in Tasks |-> IdleWorker],
     results |-> <<>>, successCount |-> 0, failedCount |-> 0,
     report |-> None, requested |-> <<>>, pages |-> <<>>,
     allCampaigns |-> <<>>]

(* --------------------------- specifications ---------------------------- *)

\* The RateLimiter under concurrent execute() callers, clear() and the clock
InitRL ==
    /\ now = 1
    /\ config \in Configs
    /\ RLIdle
    /\ maxConcurrent = 1
    /\ CQIdle
    /\ retry = IdleRetry
    /\ token = None
    /\ auth = [requests |-> 0, issued |-> 0, failures |-> 0]
    /\ TMIdle
    /\ api = IdleApi
    /\ idleWait = IdleWaiter
    /\ probe = IdleProbe
    /\ discarded = {}
    /\ orch = IdleOrch

notRL == <<cqVars, retry, tmVars, api, obsVars>>

Execute == \E c \in Callers, p \in Priorities : RL_Execute(c, p) /\ UNCHANGED notRL
DrainWake == \E d \in Callers : RL_DrainWake(d) /\ UNCHANGED notRL
WorkDone == \E c \in Callers, ok \in BOOLEAN : RL_WorkDone(c, ok) /\ UNCHANGED notRL
Clear == RL_Clear /\ UNCHANGED notRL
Tick == RL_Tick /\ UNCHANGED notRL

NextRL == Execute \/ DrainWake \/ WorkDone \/ Clear \/ Tick

SpecRL == InitRL /\ [][NextRL]_vars

\* The clock moves on to the timer of a sleeping processQueue
RL_TickToTimer ==
    /\ ~TimerDue
    /\ \E d \in Callers :
          /\ drain[d].pc = "sleep"
          /\ \A e \in Callers : drain[e].pc = "sleep" => drain[d].wake <= drain[e].wake
          /\ now' = drain[d].wake
    /\ UNCHANGED rlVars

TickToTimer == RL_TickToTimer /\ UNCHANGED notRL

ExecuteLive ==
    \E c \in Callers, p \in Priorities :
        /\ c <= NLiveCallers
        /\ RL_Execute(c, p)
        /\ UNCHANGED notRL

NextRLLive == ExecuteLive \/ DrainWake \/ WorkDone \/ Tick \/ TickToTimer

\* The RateLimiter without clear(): time keeps advancing up to every timer
\* set, timers that are due fire, and every work body settles
SpecRLLive ==
    /\ InitRL /\ [][NextRLLive]_vars
    /\ WF_vars(DrainWake) /\ WF_vars(WorkDone) /\ WF_vars(TickToTimer)

\* execute(fn): the priority parameter left at its default
ExecuteDefault == \E c \in Callers : RL_Execute(c, 0) /\ UNCHANGED notRL

NextRLDefault == ExecuteDefault \/ DrainWake \/ WorkDone \/ Clear \/ Tick

\* The RateLimiter with every call made at the default priority
SpecRLDefault == InitRL /\ [][NextRLDefault]_vars

notProbe == <<cqVars, retry, tmVars, api, idleWait, discarded, orch>>

GetInfo == RL_GetInfo /\ UNCHANGED notProbe
WaitForReset == RL_WaitForReset /\ UNCHANGED notProbe
WaitReturn == RL_WaitReturn /\ UNCHANGED notProbe

NextRLProbe ==
    \/ Execute \/ DrainWake \/ WorkDone \/ Clear \/ Tick
    \/ GetInfo \/ WaitForReset \/ WaitReturn

\* The RateLimiter with getInfo() and waitForReset() called from outside
\* while execute() callers come and go
SpecRLProbe == InitRL /\ [][NextRLProbe]_vars

\* The ConcurrencyQueue under add(), task completions and clear()
InitCQ ==
    /\ now = 1
    /\ config \in {c \in Configs : c.maxRequests = 1 /\ c.windowMs = MaxWindow}
    /\ RLIdle
    /\ maxConcurrent \in 1..MaxConcurrent
    /\ CQIdle
    /\ retry = IdleRetry
    /\ token = None
    /\ auth = [requests |-> 0, issued |-> 0, failures |-> 0]
    /\ TMIdle
    /\ api = IdleApi
    /\ idleWait = IdleWaiter
    /\ probe = IdleProbe
    /\ discarded = {}
    /\ orch = IdleOrch

notCQ == <<now, rlVars, retry, tmVars, api, obsVars>>

Add ==
    \E t \in Tasks, p \in TaskPriorities : CQ_Add(t, p) /\ UNCHANGED notCQ
TaskDone == \E t \in Tasks, ok \in BOOLEAN : CQ_TaskDone(t, ok) /\ UNCHANGED notCQ
Purge == CQ_Clear /\ UNCHANGED notCQ

NextCQ == Add \/ TaskDone \/ Purge

SpecCQ == InitCQ /\ [][NextCQ]_vars

notIdleWait == <<now, rlVars, cqVars, retry, tmVars, api, probe, discarded,
                 orch>>

WaitForIdle == CQ_WaitForIdle /\ UNCHANGED notIdleWait
WaitPoll == CQ_WaitPoll /\ UNCHANGED notIdleWait

AddLive ==
    \E t \in Tasks, p \in TaskPriorities :
        /\ t <= NLiveTasks
        /\ CQ_Add(t, p)
        /\ UNCHANGED notCQ

NextCQLive == AddLive \/ TaskDone \/ WaitForIdle \/ WaitPoll

\* The ConcurrencyQueue without clear(), with a waitForIdle() caller: every
\* task body settles and the timer of waitForIdle() fires
SpecCQLive ==
    /\ InitCQ /\ [][NextCQLive]_vars
    /\ WF_vars(TaskDone) /\ WF_vars(WaitPoll)

notSync == <<now, rlVars, retry, tmVars, api, idleWait, probe, discarded>>

ExecuteSyncPaged == F_ExecuteSync /\ UNCHANGED notSync
PageFetched ==
    \E size \in 0..PerPage, has_more \in BOOLEAN :
        /\ Len(orch.allCampaigns) + size <= NTasks
        /\ has_more => Len(orch.requested) < MaxPages
        /\ F_PageFetched(size, has_more)
        /\ UNCHANGED notSync
PageFails == F_PageFails /\ UNCHANGED notSync

ExecuteSync == O_ExecuteSync /\ UNCHANGED notSync
Fetched == \E n \in 0..NTasks : O_Fetched(n) /\ UNCHANGED notSync
FetchFails == O_FetchFails /\ UNCHANGED notSync
SyncRetried == \E t \in Tasks : O_SyncRetried(t) /\ UNCHANGED notSync
SyncDone ==
    \E t \in Tasks, ok \in BOOLEAN : O_SyncDone(t, ok) /\ UNCHANGED notSync
SaveDone ==
    \E t \in Tasks, ok \in BOOLEAN : O_SaveDone(t, ok) /\ UNCHANGED notSync
Report == O_Report /\ UNCHANGED notSync

NextSync ==
    \/ ExecuteSync \/ Fetched \/ FetchFails \/ SyncRetried
    \/ SyncDone \/ SaveDone \/ Report

\* What the sync request of a campaign comes back with: a SyncResponse
\* with success true, one with success false and a message, an empty
\* message or none, or an error of the request
SyncAnswers ==
    {[rejected |-> FALSE, success |-> TRUE, message |-> None, text |-> ""],
     [rejected |-> FALSE, success |-> FALSE, message |-> Some("campaign locked"),
      text |-> ""],
     [rejected |-> FALSE, success |-> FALSE, message |-> Some(""), text |-> ""],
     [rejected |-> FALSE, success |-> FALSE, message |-> None, text |-> ""],
     [rejected |-> TRUE, success |-> FALSE, message |-> None,
      text |-> "HTTP 500"]}

SyncAnswered ==
    \E t \in Tasks, answer \in SyncAnswers :
        O_SyncAnswered(t, answer) /\ UNCHANGED notSync

NextWorker == ExecuteSync \/ Fetched \/ SyncAnswered \/ SaveDone \/ Report

\* One executeSync() run with the answers of the sync requests: each comes
\* back with one of SyncAnswers and each save resolves or rejects
SpecWorker == InitCQ /\ [][NextWorker]_vars

NextPaged ==
    \/ ExecuteSyncPaged \/ PageFetched \/ PageFails
    \/ SyncDone \/ SaveDone \/ Report

\* One executeSync() run with the pages of fetchAllCampaigns: each page
\* request resolves with up to PerPage campaigns and a has_more flag, or
\* rejects; the campaigns then go through the run's queue
SpecPaged == InitCQ /\ [][NextPaged]_vars

\* One executeSync() run: the campaigns fetched go through the run's own
\* ConcurrencyQueue, and every syncCampaignFn / saveCampaignFn call
\* resolves or rejects
SpecSync == InitCQ /\ [][NextSync]_vars

\* One withRetry() activation over an operation that resolves or rejects
InitRetry ==
    /\ now = 1
    /\ config \in {c \in Configs : c.maxRequests = 1 /\ c.windowMs = MaxWindow}
    /\ RLIdle
    /\ maxConcurrent = 1
    /\ CQIdle
    /\ retry = IdleRetry
    /\ token = None
    /\ auth = [requests |-> 0, issued |-> 0, failures |-> 0]
    /\ TMIdle
    /\ api = IdleApi
    /\ idleWait = IdleWaiter
    /\ probe = IdleProbe
    /\ discarded = {}
    /\ orch = IdleOrch

notRetry == <<rlVars, cqVars, tmVars, api, obsVars>>

WithRetry == \E o \in RetryOptionSets : R_WithRetry(o) /\ UNCHANGED notRetry
OpResolves == R_OpResolves /\ UNCHANGED notRetry
OpRejects == \E e \in OperationErrors : R_OpRejects(e) /\ UNCHANGED notRetry
SleepOver == R_SleepOver /\ UNCHANGED notRetry

NextRetry == WithRetry \/ OpResolves \/ OpRejects \/ SleepOver

SpecRetry == InitRetry /\ [][NextRetry]_vars

\* Every attempt settles and every timer fires
SpecRetryFair == SpecRetry /\ WF_vars(NextRetry)

\* The lifetimes (seconds) of the tokens the endpoint issues
ExpiresIn == {TOKEN_REFRESH_BUFFER_SECONDS + 30, 3600}

\* The clock step of the TokenManager runs (ms) and where they start
ClockStep == 200500
StartTime == 1000000

\* The TokenManager under concurrent getToken() / refreshToken() callers,
\* clearToken(), an endpoint that answers or fails, and the clock.  It
\* starts with no token, or with one acquired earlier (access_token 0);
\* the clock moves in steps of ClockStep and timers fire once they are due.
InitTM ==
    /\ now = StartTime
    /\ config \in {c \in Configs : c.maxRequests = 1 /\ c.windowMs = MaxWindow}
    /\ RLIdle
    /\ maxConcurrent = 1
    /\ CQIdle
    /\ retry = IdleRetry
    /\ token \in {None, Some([access_token |-> 0,
                               expires_in |-> TOKEN_REFRESH_BUFFER_SECONDS + 30,
                               issued_at |-> NowSeconds(StartTime)])}
    /\ auth = [requests |-> 0, issued |-> 0, failures |-> 0]
    /\ TMIdle
    /\ api = IdleApi
    /\ idleWait = IdleWaiter
    /\ probe = IdleProbe
    /\ discarded = {}
    /\ orch = IdleOrch

notTM ==
    <<config, requests, queue, processing, drain, rlCall, cqVars, retry, api,
      obsVars>>

GetToken == \E c \in TokenCallers : TM_GetToken(c) /\ UNCHANGED notTM
RefreshToken == \E c \in TokenCallers : TM_RefreshToken(c) /\ UNCHANGED notTM
AuthOk ==
    \E a \in TokenCallers, e \in ExpiresIn : TM_AuthOk(a, e) /\ UNCHANGED notTM
AuthFails ==
    \E a \in TokenCallers, rejected \in BOOLEAN :
        TM_AuthFails(a, rejected) /\ UNCHANGED notTM
AcquireSleepOver ==
    \E a \in TokenCallers : TM_AcquireSleepOver(a) /\ UNCHANGED notTM
Resume == \E c \in TokenCallers : TM_Resume(c) /\ UNCHANGED notTM
ClearToken == TM_ClearToken /\ UNCHANGED notTM
TickTM ==
    /\ TM_Tick(ClockStep, StartTime + MaxClockSteps * ClockStep)
    /\ UNCHANGED notTM

NextTM ==
    \/ GetToken \/ RefreshToken \/ AuthOk \/ AuthFails
    \/ AcquireSleepOver \/ Resume \/ ClearToken \/ TickTM

SpecTM == InitTM /\ [][NextTM]_vars

TickToAcquire == TM_TickToTimer /\ UNCHANGED notTM

\* The endpoint issues a token of the long lifetime
AuthOkLong == \E a \in TokenCallers : TM_AuthOk(a, 3600) /\ UNCHANGED notTM

\* fetch throws on the request to the endpoint
AuthUnreachable ==
    \E a \in TokenCallers : TM_AuthFails(a, FALSE) /\ UNCHANGED notTM

NextTMRetry ==
    \/ GetToken \/ RefreshToken \/ AuthOkLong \/ AuthUnreachable
    \/ AcquireSleepOver \/ Resume \/ ClearToken \/ TickToAcquire

\* The TokenManager against an endpoint that answers or cannot be
\* reached, with the clock following the timers of withRetry, so that an
\* acquisition runs through all its attempts
SpecTMRetry == InitTM /\ [][NextTMRetry]_vars

\* RATE_LIMIT_MAX_REQUESTS and RATE_LIMIT_WINDOW_MS when the environment
\* sets neither
DefaultMaxRequests == 10
DefaultWindowMs == 60000

\* The statuses the server answers with and the retry-after headers
Statuses == {200, 401, 429, 503, 500}
RetryAfterHeaders == {None, Some(2)}

\* One request() call through the pipeline: withRetry around the limiter
\* around executeRequest, against a server and an authentication endpoint
\* that answer or fail.  The limiter admits one request or the default
\* number per window; the manager starts with no token or with one
\* acquired earlier (access_token 0).
InitApi ==
    /\ now = StartTime
    /\ config \in [maxRequests : {1, DefaultMaxRequests},
                    windowMs : {DefaultWindowMs}]
    /\ RLIdle
    /\ maxConcurrent = 1
    /\ CQIdle
    /\ retry = IdleRetry
    /\ token \in {None} \cup
                 {Some([access_token |-> 0, expires_in |-> e,
                        issued_at |-> NowSeconds(StartTime)]) : e \in ExpiresIn}
    /\ auth = [requests |-> 0, issued |-> 0, failures |-> 0]
    /\ TMIdle
    /\ api = IdleApi
    /\ idleWait = IdleWaiter
    /\ probe = IdleProbe
    /\ discarded = {}
    /\ orch = IdleOrch

Request == API_Request /\ UNCHANGED <<cqVars, obsVars>>
RequestDrainWake == \E d \in Callers : API_DrainWake(d) /\ UNCHANGED <<cqVars, obsVars>>
TokenReady == API_TokenReady /\ UNCHANGED <<cqVars, obsVars>>
Respond ==
    \E status \in Statuses, header \in RetryAfterHeaders :
        API_Respond(status, header) /\ UNCHANGED <<cqVars, obsVars>>
TransportFails ==
    \E message \in {"fetch failed", "timeout", "boom"} :
        API_TransportFails(message) /\ UNCHANGED <<cqVars, obsVars>>
RequestSleepOver == API_SleepOver /\ UNCHANGED <<cqVars, obsVars>>
TickApi == API_Tick /\ UNCHANGED <<cqVars, obsVars>>

NextApi ==
    \/ Request \/ RequestDrainWake \/ TokenReady \/ Respond
    \/ TransportFails \/ RequestSleepOver \/ TickApi
    \/ AuthOk \/ AuthFails \/ AcquireSleepOver

SpecApi == InitApi /\ [][NextApi]_vars

\* The statuses answered: those of Statuses and one more that
\* handleResponse has no branch of its own for
PlainStatuses == Statuses \cup {404}

\* The server answers without a retry-after header
RespondPlain ==
    \E status \in PlainStatuses :
        API_Respond(status, None) /\ UNCHANGED <<cqVars, obsVars>>

\* fetch itself throws
FetchFailed == API_TransportFails("fetch failed") /\ UNCHANGED <<cqVars, obsVars>>

NextApiPlain ==
    \/ Request \/ RequestDrainWake \/ TokenReady \/ RespondPlain
    \/ FetchFailed \/ RequestSleepOver \/ TickApi
    \/ AuthOkLong \/ AuthUnreachable \/ AcquireSleepOver

\* One request() call through the pipeline against a server that answers
\* with any of the statuses and no retry-after header, or cannot be
\* reached, and an authentication endpoint that issues long-lived tokens or
\* cannot be reached
SpecApiPlain == InitApi /\ [][NextApiPlain]_vars

(* ------------------------ RateLimiter properties ----------------------- *)

\* Number of recorded admission timestamps t with now - window < t <= now
InWindow == Cardinality({i \in 1..Len(requests) :
                now - config.windowMs < requests[i] /\ requests[i] <= now})

\* C1: in every reachable state at most maxRequests recorded admission
\* timestamps lie in the window (now - windowMs, now].
C1_WindowBound == InWindow <= config.maxRequests

\* v goes before w in the limiter's order: higher priority, or the same
\* priority and an earlier arrival
GoesBefore(v, w) ==
    \/ rlCall[v].priority > rlCall[w].priority
    \/ rlCall[v].priority = rlCall[w].priority /\ v < w

\* C5: whenever processQueue resumes a queued waiter w, no waiter that is
\* still in the queue has a higher priority than w, or the same priority
\* and an earlier arrival.
C5_ResumeInPriorityFifoOrder ==
    [][\A w \in Callers :
          (rlCall[w].pc = "queued" /\ rlCall'[w].pc = "running")
          => \A i \in 1..Len(queue') : ~GoesBefore(queue'[i].id, w)]_vars

\* A waiter resumed by the drain while a waiter that arrived earlier with a
\* lower priority is still queued.
C5_Witness ==
    \E w, v \in Callers :
        /\ rlCall[w].pc = "running" /\ rlCall[w].via = "drain"
        /\ InQueue(v) /\ v < w /\ rlCall[v].priority < rlCall[w].priority

\* C6: no call that arrived while a waiter of equal or higher priority was
\* queued is admitted while that waiter is still waiting in the queue.
C6_NoOvertaking ==
    \A c, v \in Callers :
        ~(/\ rlCall[c].via = "direct"
          /\ v < c /\ InQueue(v)
          /\ rlCall[v].priority >= rlCall[c].priority)

(* --------------------- ConcurrencyQueue properties --------------------- *)

Running == {t \in Tasks : task[t].pc = "running"}

\* C4: in every reachable state the number of started-but-unfinished tasks,
\* and the active counter that tracks it, are at most maxConcurrent.
C4_ActiveBounded ==
    /\ Cardinality(Running) <= maxConcurrent
    /\ active = Cardinality(Running)

\* Every slot is taken and a task waits in the backlog, after a task has
\* failed and its slot was handed on.
C4_Witness ==
    /\ active = maxConcurrent
    /\ Len(taskQueue) > 0
    /\ stats.failed > 0

(* ------------------------ retry engine properties ---------------------- *)

RetryOpts == retry.options[1]

\* error is retried while attempts remain
RetryableUnder(error, options) ==
    shouldRetry(error, 0, 1, options.retryableErrors)

\* C7: when the operation has failed with a retryable error on each of its
\* maxAttempts attempts, withRetry throws a MaxRetriesExceededError that
\* wraps the last error and carries attempts = maxAttempts.
C7_ExhaustionThrowsMaxRetries ==
    (/\ retry.pc = "thrown"
     /\ retry.calls = RetryOpts.maxAttempts
     /\ RetryableUnder(retry.lastError[1], RetryOpts))
    => /\ retry.thrown[1].code = "MAX_RETRIES_EXCEEDED"
       /\ retry.thrown[1].originalError = retry.lastError
       /\ retry.thrown[1].attempts = Some(RetryOpts.maxAttempts)

RetryDone == retry.pc \in {"returned", "thrown"}

\* C8: withRetry calls the operation at least once and at most maxAttempts
\* times, never calls it again after it succeeded, returns the value of the
\* attempt that succeeded, and terminates once started.
C8_BoundedAttempts ==
    /\ [](retry.pc # "idle" =>
            /\ retry.calls >= 1
            /\ retry.calls <= RetryOpts.maxAttempts
            /\ retry.pc = "returned" => retry.result = Some(retry.calls))
    /\ [][retry.pc = "returned" => retry' = retry]_vars
    /\ (retry.pc # "idle") ~> RetryDone

\* withRetry returned the value of its last permitted attempt, after
\* maxAttempts - 1 failed attempts
C8_Witness ==
    /\ retry.pc = "returned"
    /\ RetryOpts.maxAttempts = MaxAttempts
    /\ retry.calls = MaxAttempts
    /\ retry.attempt = MaxAttempts - 1

(* ----------------------- TokenManager properties ----------------------- *)

\* The acquisitions whose request to the endpoint is in flight
InFlight == {a \in TokenCallers : acq[a].pc = "calling"}

\* C2: at any time at most one request to the authentication endpoint is
\* in flight, whatever the callers and the starting state.
C2_OneRequestInFlight == Cardinality(InFlight) <= 1

\* C3: while the call s that started a refresh is waiting for it, every
\* call that arrived after s has joined s's acquisition without starting
\* one of its own, no other refresh is in progress, that acquisition has sent exactly one request to the
\* endpoint unless a request failed, and the calls that awaited the same
\* acquisition have received the same token.
C3_RefreshSingleFlight ==
    /\ \A s \in TokenCallers :
          (tmCall[s].started /\ tmCall[s].pc = "awaiting")
          => /\ \A c \in ArrivedTM :
                    c > s => tmCall[c].on = s /\ ~tmCall[c].started
             /\ acq[s].attempt = 0 => acq[s].calls = 1
             /\ \A c \in TokenCallers \ {s} :
                    tmCall[c].started => acq[c].pc \notin {"calling", "sleeping"}
    /\ \A c, d \in TokenCallers :
          (/\ tmCall[c].on # 0 /\ tmCall[c].on = tmCall[d].on
           /\ tmCall[c].pc = "returned" /\ tmCall[d].pc = "returned")
          => tmCall[c].result = tmCall[d].result

\* All the callers called refreshToken() together: one request reached
\* the endpoint and all of them have received the token it issued.
C3_Witness ==
    /\ \A c \in TokenCallers :
          /\ tmCall[c].op = "refreshToken" /\ tmCall[c].pc = "returned"
          /\ tmCall[c].on = 1
          /\ tmCall[c].result = acq[1].result
    /\ auth.requests = 1
    /\ auth.issued = 1

\* authenticateWithApi threw this error for a non-2xx answer
IsRejection(error) == error.code = "AUTH_FAILED" /\ error.originalError = None

\* C10: an acquisition whose request the endpoint rejected fails at once
\* with AuthenticationFailed, without a retry or a delay; an acquisition
\* sends at most 3 requests.
C10_RejectionNotRetried ==
    /\ \A a \in TokenCallers :
          /\ acq[a].calls <= 3
          /\ (acq[a].lastError # None /\ IsRejection(acq[a].lastError[1]))
             => acq[a].pc = "thrown"
    /\ \A c \in TokenCallers :
          tmCall[c].pc = "thrown" => tmCall[c].result[1].code = "AUTH_FAILED"

(* ---------------------- request pipeline properties -------------------- *)

\* C9: the transport call that follows a call answered 401 does not carry
\* the token that was rejected, and the authentication endpoint has been
\* called in between.
C9_NoReuseAfter401 ==
    \A i \in 1..(Len(api.sent) - 1) :
        api.sent[i].status = 401
        => /\ api.sent[i + 1].token # api.sent[i].token
           /\ api.sent[i + 1].authRequests > api.sent[i].authRequests

\* The error kinds the pipeline may retry
RetryableKinds == Range(DefaultRetryableErrors)

\* C11: request() goes to sleep for another attempt only when attempts
\* remain, the error is flagged retryable and its code is one of
\* SERVICE_UNAVAILABLE, TIMEOUT, NETWORK_ERROR, RATE_LIMIT_EXCEEDED,
\* TOKEN_EXPIRED; an AUTH_FAILED error of the token manager is thrown to
\* the caller without another attempt.
C11_RetryOnlyRetryableKinds ==
    (api.pc = "backoff" /\ retry.pc = "sleeping")
    => /\ retry.attempt < retry.options[1].maxAttempts
       /\ retry.lastError[1].isRetryable
       /\ retry.lastError[1].code \in RetryableKinds

\* C12: no call is left suspended in execute() outside the queue: a call
\* that clear() removed from the queue has been settled (with an error),
\* so none stays pending forever.
C12_ClearSettlesWaiters ==
    \A c \in Callers : rlCall[c].pc = "queued" => InQueue(c)

\* C13: no handle returned by add() is left pending for a task that is
\* neither in the backlog nor running: a task that clear() removed from the
\* backlog has had its handle settled (with an error).
C13_ClearSettlesHandles ==
    \A t \in Tasks :
        task[t].promise = "pending"
        => (t \in QueueIds(taskQueue) \/ task[t].pc = "running")

\* u goes before t in the queue's order: higher priority, or the same
\* priority and an earlier submission
TaskGoesBefore(u, t) ==
    \/ task[u].priority > task[t].priority
    \/ task[u].priority = task[t].priority /\ u < t

C15_SameTurnStartsByPriority ==
    \A t, u \in Tasks :
        (/\ task[t].pc # "new" /\ task[u].pc # "new"
         /\ task[t].epoch = task[u].epoch
         /\ task[t].priority < task[u].priority
         /\ u \in QueueIds(taskQueue))
        => task[t].pc = "pending"

\* min(base * 2^a, maxDelay) for the retry withRetry is sleeping before
CappedBackoff ==
    Min(RetryOpts.baseDelay * Pow2(retry.attempt - 1), RetryOpts.maxDelay)

\* C16: when the error carries no retryAfter, the delay before the retry
\* with index a lies between max(0, min(base * 2^a, maxDelay) - jitter)
\* and min(base * 2^a, maxDelay) + jitter, and with jitter = 0 it is
\* exactly min(base * 2^a, maxDelay).
C16_BackoffDelayInRange ==
    (retry.pc = "sleeping" /\ getRetryAfter(retry.lastError[1]) = None)
    => /\ retry.delay >= Max(0, CappedBackoff - RetryOpts.jitter)
       /\ retry.delay <= CappedBackoff + RetryOpts.jitter
       /\ RetryOpts.jitter = 0 => retry.delay = CappedBackoff

\* The second retry sleeps exactly maxDelay: the doubled base delay
\* exceeds the cap and there is no jitter
C16_Witness ==
    /\ retry.pc = "sleeping"
    /\ getRetryAfter(retry.lastError[1]) = None
    /\ retry.attempt = 2
    /\ RetryOpts.jitter = 0
    /\ RetryOpts.baseDelay * 2 > RetryOpts.maxDelay
    /\ retry.delay = RetryOpts.maxDelay

\* C17: when the error carries retryAfter = h, the delay before the next
\* attempt is h * 1000 plus a jitter component in [-jitter, +jitter] and
\* is never negative.
C17_HintDelayNonNegative ==
    (retry.pc = "sleeping" /\ getRetryAfter(retry.lastError[1]) # None)
    => LET h == getRetryAfter(retry.lastError[1])[1] IN
       /\ retry.delay >= h * 1000 - RetryOpts.jitter
       /\ retry.delay <= h * 1000 + RetryOpts.jitter
       /\ retry.delay >= 0

\* The answer to the last transport call
LastAnswer == api.sent[Len(api.sent)]

\* C18: after a 503 answer without a retry-after header the pipeline
\* sleeps the exponential backoff min(base * 2^a, maxDelay), give or take
\* the jitter, and not a delay derived from a server hint.
C18_Backoff503WithoutHeader ==
    (/\ api.pc = "backoff" /\ retry.pc = "sleeping"
     /\ Len(api.sent) > 0
     /\ LastAnswer.status = 503 /\ LastAnswer.header = None)
    => /\ retry.delay >= Max(0, CappedBackoff - RetryOpts.jitter)
       /\ retry.delay <= CappedBackoff + RetryOpts.jitter

\* No call is suspended in the queue and every call admitted from the
\* queue has settled with the outcome of its work
QueueDrained ==
    /\ queue = <<>>
    /\ \A c \in Callers :
          /\ rlCall[c].pc # "queued"
          /\ rlCall[c].via = "drain" => rlCall[c].pc \in {"resolved", "rejected"}

\* C19: without clear(), the limiter reaches, and then stays in, a state
\* where every call that was queued by execute() has been admitted and
\* settled with the outcome of its work and the queue is empty.  (The
\* calls are finitely many and a settled call stays settled, so this is
\* "every queued call is eventually settled".)
C19_QueuedEventuallySettle == <>[]QueueDrained

\* Every call made has settled, one of them after it was admitted from
\* the queue
C19_Witness ==
    /\ \A c \in 1..NLiveCallers : rlCall[c].pc \in {"resolved", "rejected"}
    /\ \E c \in Callers : rlCall[c].via = "drain"
    /\ queue = <<>> /\ ~processing

\* C20: when a running task t fails, the handle of t is rejected, failed
\* grows by exactly 1 and completed stays, the slot of t is freed and
\* given to the head of the backlog if there is one, and every other task
\* is left as it was.
C20_FailureIsolated ==
    [][\A t \in Tasks :
          (task[t].pc = "running" /\ task'[t].pc = "failed")
          => /\ task'[t].promise = "rejected"
             /\ stats'.failed = stats.failed + 1
             /\ stats'.completed = stats.completed
             /\ IF taskQueue = <<>>
                THEN /\ active' = active - 1
                     /\ \A u \in Tasks \ {t} : task'[u] = task[u]
                ELSE LET h == Head(taskQueue).id IN
                     /\ active' = active
                     /\ taskQueue' = Tail(taskQueue)
                     /\ task'[h] = [task[h] EXCEPT !.pc = "running"]
                     /\ \A u \in Tasks \ {t, h} : task'[u] = task[u]
             /\ stats'.active = active']_vars

\* maxConcurrent = 1: task t failed while u waited in the backlog, and u
\* has run to completion since
C20_Witness ==
    /\ maxConcurrent = 1
    /\ stats.failed = 1
    /\ \E t, u \in Tasks :
          /\ t < u
          /\ task[t].pc = "failed" /\ task[t].promise = "rejected"
          /\ task[u].epoch = 0
          /\ task[u].pc = "completed" /\ task[u].promise = "resolved"

\* Every task submitted has been started and has finished, nothing is
\* left in the backlog and no waitForIdle() call is suspended
AllTasksDone ==
    /\ \A t \in Tasks : task[t].pc \in {"new", "completed", "failed"}
    /\ active = 0 /\ taskQueue = <<>>
    /\ idleWait.pc # "sleeping"

\* C21: without clear(), and with task bodies that settle, the queue
\* reaches, and then stays in, a state where every submitted task has been
\* started and has finished, the queue is idle and waitForIdle() has
\* returned (the tasks are finitely many); and waitForIdle() returns only
\* in a state with active = 0 and an empty backlog.
C21_IdleLiveness ==
    /\ <>[]AllTasksDone
    /\ [][(idleWait.pc # "returned" /\ idleWait'.pc = "returned")
           => (active' = 0 /\ Len(taskQueue') = 0 /\ stats'.pending = 0)]_vars

\* waitForIdle() found the queue busy, slept, and returned after all the
\* tasks, one of which failed, had finished
C21_Witness ==
    /\ idleWait.pc = "returned" /\ idleWait.slept
    /\ stats.completed + stats.failed = NLiveTasks
    /\ stats.failed > 0
    /\ active = 0 /\ taskQueue = <<>>

(* ------------------------ orchestrator properties ---------------------- *)

Records == 1..orch.n

\* The results recorded for campaign t
ResultsOf(results, t) ==
    {i \in 1..Len(results) : results[i].campaignId = t}

\* C22: a run never holds more than one SyncResult per campaign and no
\* task of its queue fails; when the report is made for n campaigns there
\* is exactly one SyncResult per campaign, total = n, successCount +
\* failureCount = n, the failure list has exactly one entry for each
\* campaign whose sync or save call failed and none for the others.
C22_OneResultPerRecord ==
    /\ stats.failed = 0
    /\ \A t \in Tasks : Cardinality(ResultsOf(orch.results, t)) <= 1
    /\ orch.pc = "reported" =>
          LET rep == orch.report[1] IN
          /\ rep.totalCampaigns = orch.n
          /\ Len(rep.results) = orch.n
          /\ \A t \in Records : Cardinality(ResultsOf(rep.results, t)) = 1
          /\ rep.successCount + rep.failureCount = orch.n
          /\ rep.failureCount = Cardinality({t \in Records : orch.worker[t].failed})
          /\ Len(rep.failures) = rep.failureCount
          /\ \A t \in Records :
                Cardinality({i \in 1..Len(rep.failures) : rep.failures[i] = t})
                = IF orch.worker[t].failed THEN 1 ELSE 0

\* The report of a run that took every campaign through a queue of one
\* slot: two campaigns failed and the others were synced
C22_Witness ==
    /\ orch.pc = "reported" /\ orch.n = NTasks
    /\ maxConcurrent = 1
    /\ orch.report[1].failureCount = 2
    /\ orch.report[1].successCount = NTasks - 2
    /\ stats.completed = NTasks

\* C23: the retries field of every SyncResult is the number of retries
\* withRetry made inside the campaign's sync call, and the report's
\* retryCount is the sum of the retries fields of its results.
C23_RetriesReported ==
    /\ \A i \in 1..Len(orch.results) :
          orch.results[i].retries
          = orch.worker[orch.results[i].campaignId].retried
    /\ orch.pc = "reported" =>
          orch.report[1].retryCount = SumRetries(orch.report[1].results)

(* ------------------- RateLimiter observation properties ---------------- *)

\* The admission timestamps in reqs that lie in the window at time t
InWindowAt(reqs, t) ==
    {i \in 1..Len(reqs) : t - config.windowMs < reqs[i]}

\* The oldest of the timestamps of reqs at the positions in I
OldestOf(reqs, I) ==
    CHOOSE x \in {reqs[i] : i \in I} : \A i \in I : x <= reqs[i]

\* C24: getInfo() returns remaining = maxRequests - (the number of
\* recorded timestamps t with now - windowMs < t), total = maxRequests,
\* and resetAt = (oldest in-window timestamp) + windowMs when a timestamp
\* is in the window and resetAt = now when none is.
C24_SnapshotValues ==
    [][probe'.info # probe.info =>
          LET info == probe'.info[1]
              I == InWindowAt(requests, now)
          IN  /\ info.remaining = config.maxRequests - Cardinality(I)
              /\ info.total = config.maxRequests
              /\ info.resetAt = IF I # {}
                                THEN OldestOf(requests, I) + config.windowMs
                                ELSE now]_vars

\* remaining as getInfo() would report it in the state reached
RemainingNext ==
    getInfo(cleanOldRequests(requests', now'), now').remaining

\* C25: waitForReset() returns without suspending exactly when capacity
\* remains at the call, and whenever it returns, at once or after its
\* sleep, capacity remains at that moment.
C25_ReturnsWithCapacity ==
    [][/\ (probe.pc # "sleep" /\ probe'.pc # probe.pc)
          => (probe'.pc = "returned"
              <=> Cardinality(InWindowAt(requests, now)) < config.maxRequests)
       /\ (probe'.pc = "returned" /\ probe.pc # "returned")
          => RemainingNext > 0]_vars

(* -------------------- TokenManager failure properties ------------------ *)

NoRefresh == [isRefreshing |-> FALSE, promise |-> None]

\* C26: a call that awaited an acquisition which failed throws the
\* AuthError (no call gets a token out of a failed acquisition); when the
\* call that started a refresh throws, refreshState is cleared, and no
\* call arriving afterwards joins that refresh; and the steps of a failing
\* acquisition leave the token alone: the token changes only by
\* clearToken() or when an acquisition succeeds.
C26_RefreshFailure ==
    [][/\ \A c \in TokenCallers :
            (/\ tmCall[c].pc = "awaiting" /\ tmCall'[c].pc # "awaiting"
             /\ acq[tmCall[c].on].pc = "thrown")
            => /\ tmCall'[c].pc = "thrown"
               /\ tmCall'[c].result[1].code = "AUTH_FAILED"
       /\ \A c \in TokenCallers :
            (tmCall'[c].pc = "returned" /\ tmCall'[c].on # 0)
            => acq'[tmCall'[c].on].pc = "returned"
       /\ \A s \in TokenCallers :
            (/\ tmCall[s].started /\ tmCall[s].pc = "awaiting"
             /\ tmCall'[s].pc = "thrown")
            => refreshState' = NoRefresh
       /\ \A c, s \in TokenCallers :
            (/\ tmCall[c].pc = "idle" /\ tmCall'[c].pc # "idle"
             /\ tmCall[s].started /\ tmCall[s].pc = "thrown")
            => tmCall'[c].on # s
       /\ token' # token
          => \/ token' = None
             \/ \E a \in TokenCallers :
                   /\ acq[a].pc = "calling" /\ acq'[a].pc = "returned"
                   /\ token' = acq'[a].result]_vars

\* A refresh started by refreshToken() ran out of attempts: the call that
\* started it and the call that joined it have both thrown, the slot is
\* free and the token held before is still there
C26_Witness ==
    /\ tmCall[1].started /\ tmCall[1].pc = "thrown"
    /\ tmCall[2].on = 1 /\ ~tmCall[2].started /\ tmCall[2].pc = "thrown"
    /\ acq[1].pc = "thrown" /\ acq[1].calls = 3
    /\ refreshState = NoRefresh
    /\ token # None /\ token[1].access_token = 0


\* getToken() is called by c in this step
GetTokenStep(c) ==
    tmCall[c].pc = "idle" /\ tmCall'[c].pc # "idle" /\ tmCall'[c].op = "getToken"

\* The held token is outside its refresh buffer (seconds)
OutsideBuffer ==
    /\ token # None
    /\ NowSeconds(now) <
          token[1].issued_at + token[1].expires_in - TOKEN_REFRESH_BUFFER_SECONDS

\* C27: getToken() called while a token is held, no refresh is in flight
\* and now < issued_at + expires_in - 300 s returns that token and sends
\* nothing to the endpoint, each time it is called; called with no token
\* held or with now >= issued_at + expires_in - 300 s it starts an
\* acquisition (one request to the endpoint) or joins the one in flight,
\* and it returns what that acquisition returned.
C27_GetToken ==
    [][\A c \in TokenCallers :
         /\ (GetTokenStep(c) /\ refreshState = NoRefresh /\ OutsideBuffer)
            => /\ tmCall'[c].pc = "returned"
               /\ tmCall'[c].result = token
               /\ auth' = auth /\ acq' = acq /\ token' = token
         /\ (GetTokenStep(c) /\ ~OutsideBuffer)
            => /\ tmCall'[c].pc = "awaiting"
               /\ LET a == tmCall'[c].on IN
                  \/ /\ a = c
                     /\ acq[c].pc = "idle" /\ acq'[c].pc = "calling"
                     /\ auth'.requests = auth.requests + 1
                  \/ /\ a # c /\ a \in TokenCallers
                     /\ refreshState.promise = Some(a)
                     /\ acq[a].pc # "idle"
                     /\ acq' = acq /\ auth' = auth
         /\ (/\ tmCall[c].op = "getToken"
             /\ tmCall[c].pc = "awaiting" /\ tmCall'[c].pc # "awaiting")
            => LET a == acq[tmCall[c].on] IN
               IF a.pc = "returned"
               THEN tmCall'[c].pc = "returned" /\ tmCall'[c].result = a.result
               ELSE a.pc = "thrown" /\ tmCall'[c].pc = "thrown"
      ]_vars

\* The first getToken() returned the held token at once; after the clock
\* moved into the refresh buffer the second one started a refresh; the
\* endpoint got that one request only.
C27_Witness ==
    /\ token # None /\ token[1].access_token = 0
    /\ tmCall[1].op = "getToken" /\ tmCall[1].pc = "returned"
    /\ tmCall[1].on = 0 /\ tmCall[1].result = token
    /\ now = StartTime + ClockStep
    /\ tmCall[2].op = "getToken" /\ tmCall[2].pc = "awaiting"
    /\ tmCall[2].on = 2 /\ tmCall[2].started
    /\ auth.requests = 1


\* How often the timestamp v is on the list reqs
CountOf(reqs, v) == Cardinality({i \in 1..Len(reqs) : reqs[i] = v})

\* What getInfo() would report as remaining for the list reqs at time t
RemainingAt(reqs, t) ==
    Max(0, config.maxRequests - Cardinality(InWindowAt(reqs, t)))

\* C28: the step that starts the work body of a call has put the timestamp
\* now on the list, and the step in which a work body settles takes no
\* in-window timestamp off the list: a call whose work fails is rejected,
\* every timestamp still inside the window stays counted, and remaining
\* does not grow.
C28_TimestampKept ==
    [][\A c \in Callers :
         /\ (rlCall[c].pc # "running" /\ rlCall'[c].pc = "running")
            => /\ requests' # <<>>
               /\ requests'[Len(requests')] = now
               /\ CountOf(requests', now) = CountOf(requests, now) + 1
         /\ (rlCall[c].pc = "running" /\ rlCall'[c].pc # "running")
            => /\ rlCall'[c].pc \in {"resolved", "rejected"}
               /\ \A i \in InWindowAt(requests, now) :
                     CountOf(requests', requests[i])
                        >= CountOf(requests, requests[i])
               /\ RemainingAt(requests', now') <= RemainingAt(requests, now)
      ]_vars

\* The work of call 1, admitted directly, and of call 2, admitted from the
\* queue, failed; the timestamp of call 2 is still inside the window and
\* keeps call 3 waiting in the queue.
C28_Witness ==
    /\ rlCall[1].pc = "rejected" /\ rlCall[1].via = "direct"
    /\ rlCall[2].pc = "rejected" /\ rlCall[2].via = "drain"
    /\ rlCall[3].pc = "queued"
    /\ requests # <<>> /\ requests[Len(requests)] = now
    /\ Cardinality(InWindowAt(requests, now)) >= config.maxRequests
    /\ RemainingAt(requests, now) = 0


\* C29: every task submitted has its work invoked exactly once and its
\* handle completed exactly once, by that work: a task leaves the backlog
\* only by being started, it is started from the backlog and never again,
\* its handle settles in the step in which its work finishes, resolved when
\* the work succeeded and rejected when it failed, and a settled handle
\* never changes.
C29_HandleFollowsWork ==
    [][\A t \in Tasks :
         /\ (t \in QueueIds(taskQueue) /\ t \notin QueueIds(taskQueue'))
            => task'[t].pc = "running"
         /\ (task[t].pc # "running" /\ task'[t].pc = "running")
            => (task[t].pc = "new" \/ t \in QueueIds(taskQueue))
         /\ (task[t].promise = "pending" /\ task'[t].promise # "pending")
            => /\ task[t].pc = "running"
               /\ \/ task'[t].pc = "completed" /\ task'[t].promise = "resolved"
                  \/ task'[t].pc = "failed" /\ task'[t].promise = "rejected"
         /\ task[t].promise \in {"resolved", "rejected"}
            => task'[t] = task[t]
      ]_vars


\* execute() is called by c in this step
ExecuteStep(c) == rlCall[c].pc = "idle" /\ rlCall'[c].pc # "idle"

\* The calls admitted by execute() itself
DirectCalls == {c \in Callers : rlCall[c].via = "direct"}

\* C30: execute() admits its caller at once (the timestamp now is appended,
\* the work runs, the queue is left alone) exactly when fewer than
\* maxRequests timestamps are inside the window at the call; otherwise no
\* timestamp is recorded, the caller is put in the queue and the queue is
\* longer by one.  On a fresh limiter, K calls made at the same instant
\* give min(K, maxRequests) immediate admissions and K - maxRequests queued
\* calls, with remaining = 0 once K >= maxRequests.
C30_AdmitOrQueue ==
    /\ [][\A c \in Callers : ExecuteStep(c) =>
            LET inWindow == Cardinality(InWindowAt(requests, now)) IN
            IF inWindow < config.maxRequests
            THEN /\ rlCall'[c].pc = "running" /\ rlCall'[c].via = "direct"
                 /\ requests' # <<>> /\ requests'[Len(requests')] = now
                 /\ Cardinality(InWindowAt(requests', now)) = inWindow + 1
                 /\ queue' = queue
            ELSE /\ rlCall'[c].pc = "queued"
                 /\ c \in QueueIds(queue')
                 /\ Len(queue') = Len(queue) + 1
                 /\ Cardinality(InWindowAt(requests', now)) = inWindow
                 /\ \A o \in Callers \ {c} : rlCall'[o] = rlCall[o]
         ]_vars
    /\ [](LET K == Cardinality(Arrived) IN
          (now = 1 /\ Len(requests) + Len(queue) = K)
          => /\ Len(requests) = Min(K, config.maxRequests)
             /\ Cardinality(DirectCalls) = Min(K, config.maxRequests)
             /\ Len(queue) = Max(0, K - config.maxRequests)
             /\ K >= config.maxRequests => RemainingAt(requests, now) = 0)

\* Every caller called execute() at the first instant of a fresh limiter:
\* maxRequests of them were admitted at once, the others (two or more) are
\* queued and nothing remains.
C30_Witness ==
    /\ now = 1
    /\ Cardinality(Arrived) = NCallers
    /\ Cardinality(DirectCalls) = config.maxRequests
    /\ Len(requests) = config.maxRequests
    /\ Len(queue) = NCallers - config.maxRequests
    /\ Len(queue) >= 2
    /\ RemainingAt(requests, now) = 0


\* The attempts of request() that the limiter admitted: one timestamp was
\* recorded for each
AdmittedAttempts ==
    {k \in Callers : rlCall[k].pc \in {"running", "resolved", "rejected"}}

\* C31: an attempt asks for its token only while it holds a limiter slot of
\* its own and sends its transport call only after getToken() returned,
\* with the token returned; each attempt withRetry made has consumed one
\* slot (the one still waiting in the limiter excepted), and the transport
\* calls sent never outnumber the timestamps recorded.
C31_SlotTokenTransport ==
    /\ Len(api.sent) <= Cardinality(AdmittedAttempts)
    /\ api.pc \in {"token", "fetching"} => rlCall[api.attempt].pc = "running"
    /\ api.pc = "token" => /\ tmCall[api.attempt].pc = "awaiting"
                           /\ Len(api.sent) < Cardinality(AdmittedAttempts)
    /\ api.pc = "fetching"
       => /\ tmCall[api.attempt].pc = "returned"
          /\ api.sent[Len(api.sent)].token
                = tmCall[api.attempt].result[1].access_token
    /\ api.pc # "idle"
       => /\ api.attempt = retry.calls
          /\ AdmittedAttempts =
                1..(IF api.pc = "limiter" THEN retry.calls - 1 ELSE retry.calls)
          /\ \A k \in Callers : k > retry.calls => rlCall[k].pc = "idle"

\* The first attempt took a slot and failed before any transport call,
\* because no token could be acquired; the second attempt took another
\* slot, got a token and was answered 200.
C31_Witness ==
    /\ api.pc = "returned"
    /\ retry.calls = 2
    /\ Cardinality(AdmittedAttempts) = 2
    /\ Len(requests) = 2
    /\ Len(api.sent) = 1
    /\ api.sent[1].status = 200
    /\ tmCall[1].pc = "thrown"


\* The transport call in flight is answered in this step
AnsweredStep ==
    /\ api.pc = "fetching" /\ api'.pc # "fetching"
    /\ api'.sent[Len(api'.sent)].status > 0

\* C32: an answer with a status outside 2xx other than 401, 429 and 503
\* makes request() throw at once an ApiError that carries the status: no
\* sleep, no further attempt, no further transport call; an answer 429 is
\* turned into a RateLimitError and an answer 503 into a
\* ServiceUnavailableError, and after either request() sleeps for another
\* attempt as long as attempts remain.
C32_OtherStatusNotRetried ==
    [][/\ AnsweredStep =>
            LET st == api'.sent[Len(api'.sent)].status
                e == retry'.lastError[1]
                remain == retry'.attempt < retry'.options[1].maxAttempts
            IN  /\ (st \notin 200..299 \cup {401, 429, 503})
                   => /\ api'.pc = "thrown" /\ retry'.pc = "thrown"
                      /\ retry'.thrown = Some(e)
                      /\ e.name = "ApiError" /\ e.statusCode = st
                      /\ retry'.calls = retry.calls
                      /\ retry'.delay = 0 /\ retry'.wake = retry.wake
                      /\ Len(api'.sent) = Len(api.sent)
                      /\ retry'.calls = 1 => Len(api'.sent) = 1
                /\ st = 429 => e.name = "RateLimitError"
                /\ st = 503 => e.name = "ServiceUnavailableError"
                /\ st \in {429, 503}
                   => IF remain
                      THEN api'.pc = "backoff" /\ retry'.pc = "sleeping"
                      ELSE api'.pc = "thrown" /\ retry'.pc = "thrown"
       /\ api.pc = "thrown" => api' = api /\ retry' = retry
      ]_vars

\* The first transport call was answered 429 and retried, the second was
\* answered 404: request() has thrown the ApiError with status 404 after
\* these two calls.
C32_Witness ==
    /\ api.pc = "thrown"
    /\ Len(api.sent) = 2
    /\ api.sent[1].status = 429 /\ api.sent[2].status = 404
    /\ retry.calls = 2
    /\ retry.thrown # None /\ retry.thrown[1].name = "ApiError"
    /\ retry.thrown[1].statusCode = 404


\* The campaigns of the pages ps, page after page: what the pages answered
\* so far add up to
RECURSIVE ConcatPages(_, _)
ConcatPages(ps, k) ==
    IF k > Len(ps) THEN <<>>
    ELSE [i \in 1..ps[k].size |-> [page |-> k, index |-> i]]
         \o ConcatPages(ps, k + 1)

\* fetchAllCampaigns returned
FetchReturned == orch.pc \in {"syncing", "reported"}

\* C33: the pages are requested one at a time in the order 1, 2, 3, ...:
\* page k + 1 is requested only once page k came back with has_more true,
\* the fetch ends with the first page whose has_more is false, and the
\* campaigns handed to the queue are the pages' campaigns in page order;
\* when a page request fails executeSync throws and no task has been added
\* to the queue.
C33_Pagination ==
    /\ \A i \in 1..Len(orch.requested) : orch.requested[i] = i
    /\ Len(orch.requested) \in {Len(orch.pages), Len(orch.pages) + 1}
    /\ \A k \in 1..Len(orch.pages) :
          k < Len(orch.requested) <=> orch.pages[k].has_more
    /\ orch.allCampaigns = ConcatPages(orch.pages, 1)
    /\ FetchReturned
       => /\ orch.pages # <<>>
          /\ Len(orch.requested) = Len(orch.pages)
          /\ ~orch.pages[Len(orch.pages)].has_more
          /\ orch.n = Len(orch.allCampaigns)
          /\ Submitted = 1..orch.n
    /\ ~FetchReturned
       => /\ Submitted = {}
          /\ taskQueue = <<>> /\ active = 0
          /\ stats = [pending |-> 0, active |-> 0, completed |-> 0, failed |-> 0]
    /\ (orch.pc = "thrown" /\ orch.pages # <<>>)
       => orch.pages[Len(orch.pages)].has_more

\* Three pages of one campaign each were fetched, the third with has_more
\* false, and the three campaigns are in the queue in page order.
C33_Witness ==
    /\ orch.pc = "syncing"
    /\ orch.requested = <<1, 2, 3>>
    /\ Len(orch.pages) = 3
    /\ orch.allCampaigns = <<[page |-> 1, index |-> 1], [page |-> 2, index |-> 1],
                             [page |-> 3, index |-> 1]>>
    /\ Submitted = {1, 2, 3}

\* The request of page 2 failed after page 1 had arrived: executeSync has
\* thrown and the queue was never used.
C33_WitnessFailure ==
    /\ orch.pc = "thrown"
    /\ orch.requested = <<1, 2>>
    /\ Len(orch.pages) = 1 /\ orch.pages[1].size > 0
    /\ Submitted = {}


\* The SyncResult pushed for campaign t, if any
ResultOf(t) ==
    {orch.results[i] : i \in {j \in 1..Len(orch.results) :
                                   orch.results[j].campaignId = t}}

ClearTokenWatched ==
    /\ TM_ClearToken
    /\ discarded' = discarded \cup
           (IF token = None THEN {}
            ELSE {[token |-> token[1], calls |-> Cardinality(ArrivedTM)]})
    /\ UNCHANGED <<config, requests, queue, processing, drain, rlCall,
                   cqVars, retry, api, idleWait, probe, orch>>

NextTMClear ==
    \/ GetToken \/ RefreshToken \/ AuthOkLong \/ Resume
    \/ ClearTokenWatched \/ TickTM

\* The TokenManager with clearToken() watched, against an endpoint that
\* answers every request with a token
SpecTMClear == InitTM /\ [][NextTMClear]_vars

\* The getToken() calls made after d was thrown away
CallsAfter(d) == {c \in TokenCallers : c > d.calls /\ tmCall[c].op = "getToken"}

\* C35: after clearToken() no token is held, and a getToken() call made
\* afterwards never returns the token thrown away: while no token is held
\* it starts or joins an acquisition, also when clearToken() was called
\* with a refresh in flight.
C35_NextObtainFresh ==
    /\ [][\A c \in TokenCallers :
            (token = None /\ tmCall[c].pc = "idle" /\ tmCall'[c].pc # "idle")
                => tmCall'[c].pc = "awaiting"]_vars
    /\ [](\A d \in discarded : \A c \in CallsAfter(d) :
            tmCall[c].pc = "returned" => tmCall[c].result # Some(d.token))


\* ---------------------------------------------------------------------
\* Free slots and the backlog

\* C36: after every add(), task completion and clear(), it is not the
\* case that fewer than maxConcurrent tasks are running while the backlog
\* holds a task.
C36_WorkConserving == ~(active < maxConcurrent /\ Len(taskQueue) > 0)

\* A task has finished while others waited: every slot is taken again and
\* the backlog still holds a task
C36_Witness ==
    /\ stats.completed + stats.failed > 0
    /\ active = maxConcurrent
    /\ Len(taskQueue) > 0


\* ---------------------------------------------------------------------
\* The activations of processQueue()

\* The processQueue() activations that have started and not returned
LiveDrains == {d \in Callers : drain[d].pc # "off"}

\* C37: at most one processQueue() activation is live at any time, also
\* after clear() was called while the activation was suspended and a
\* caller was queued afterwards, and processing is true exactly while an
\* activation is live.
C37_OneDrainLive ==
    /\ Cardinality(LiveDrains) <= 1
    /\ processing <=> LiveDrains # {}


\* ---------------------------------------------------------------------
\* The drain and the work of the callers it admitted

\* The window has room for one more admission now
HasCapacity == canMakeRequest(cleanOldRequests(requests, now))

\* C38: processQueue() admits the next queued request as soon as the
\* window has capacity, whether or not the work of the requests it
\* admitted before has finished: no request stays queued, with capacity
\* in the window, behind an activation that awaits a work body.
C38_DrainNotHeldByWork ==
    \A d \in Callers :
        drain[d].pc = "await" => ~(Len(queue) > 0 /\ HasCapacity)


\* ---------------------------------------------------------------------
\* The statistics of the ConcurrencyQueue

\* The tasks started and not yet settled
RunningTasks == {t \in Tasks : task[t].pc = "running"}

\* The submitted tasks clear() has dropped from the backlog
Dropped == {t \in Tasks : task[t].pc = "pending"
                          /\ \A i \in 1..Len(taskQueue) : taskQueue[i].id # t}

\* C39: getStats().pending is the length of the backlog and
\* getStats().active the number of tasks started and not finished;
\* completed and failed never decrease; and as long as clear() has
\* dropped nothing, the number of tasks submitted is
\* pending + active + completed + failed.
C39_Accounting ==
    /\ [](/\ stats.pending = Len(taskQueue)
          /\ stats.active = Cardinality(RunningTasks)
          /\ stats.active = active
          /\ Dropped = {} =>
                Cardinality(Submitted) =
                    stats.pending + stats.active + stats.completed
                        + stats.failed)
    /\ [][/\ stats'.completed >= stats.completed
          /\ stats'.failed >= stats.failed]_vars

\* One task waits, one runs, one has completed, and nothing was dropped
C39_Witness ==
    /\ stats.pending > 0
    /\ stats.active > 0
    /\ stats.completed + stats.failed > 0
    /\ Dropped = {}


\* ---------------------------------------------------------------------
\* One timestamp and one invocation for each admitted call

\* The calls whose work body has been invoked
Invoked == {c \in Callers : rlCall[c].pc \in {"running", "resolved", "rejected"}}

\* The calls whose work body is invoked in this step
InvokedNow == {c \in Callers : c \notin Invoked /\ rlCall'[c].pc = "running"}

\* The number of timestamps recordRequest() adds in this step: the
\* timestamps carry the time of the step, and pruning leaves them alone
RecordedNow == Max(0, CountOf(requests', now') - CountOf(requests, now'))

\* C40: every admitted execute() call has one timestamp recorded and its
\* work body invoked once: each step records as many timestamps as it
\* invokes work bodies, a work body once invoked is never invoked again,
\* and the queue holds every waiting request once and no request whose
\* work has been invoked.
C40_OneSlotOneInvocation ==
    /\ [][/\ Cardinality(InvokedNow) = RecordedNow
          /\ \A c \in Invoked :
                rlCall'[c].pc \in {rlCall[c].pc, "resolved", "rejected"}]_vars
    /\ [](/\ \A i, j \in 1..Len(queue) : queue[i].id = queue[j].id => i = j
          /\ \A c \in Callers : InQueue(c) => rlCall[c].pc = "queued")

\* One call was admitted at once and another by processQueue(), each on
\* a timestamp of its own
C40_Witness ==
    /\ \E c \in Invoked : rlCall[c].via = "direct"
    /\ \E c \in Invoked : rlCall[c].via = "drain"
    /\ Len(requests) >= 2

====
